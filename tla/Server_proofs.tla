---------------------------- MODULE Server_proofs ----------------------------
(* Proofs about the start of the process, for every set of command lines    *)
(* and values of PORT, about the routes its requests take, for every set of *)
(* routes and requests, and about what its workers see of each other, for   *)
(* every set of workers.                                                    *)
EXTENDS Server, FiniteSetTheorems, TLAPS

\* FirstOf returns the address of a choice that applies where none before it
\* does.
LEMMA FirstOfApplies ==
  ASSUME NEW choices, DOMAIN choices = 1..7, NEW n \in 1..7,
         choices[n].applies, \A j \in 1..(n - 1) : ~choices[j].applies
  PROVE  FirstOf(choices) = choices[n].address
<1> DEFINE P(i) == choices[i].applies /\ \A j \in 1..(i - 1) : ~choices[j].applies
<1>1. \A i \in 1..7 : P(i) => i = n
  <2> SUFFICES ASSUME NEW i \in 1..7, P(i), i # n PROVE FALSE
    OBVIOUS
  <2>1. i \in 1..(n - 1) \/ n \in 1..(i - 1)
    OBVIOUS
  <2> QED
    BY <2>1
<1>2. P(n)
  OBVIOUS
<1>3. (CHOOSE i \in DOMAIN choices : P(i)) = n
  BY <1>1, <1>2
<1> QED
  BY <1>3 DEF FirstOf

\* The options the HTTP address is taken from, in the order getHTTPListener
\* tries them, and those it gives way to.
LEMMA HTTPListener ==
  ASSUME NEW o, o.http \in BOOLEAN, o.https \in BOOLEAN
  PROVE  getHTTPListener(o) =
           IF Given(o.httpAddr) THEN o.httpAddr
           ELSE IF Given(o.httpPort) THEN o.httpPort
           ELSE IF Given(o.httpUnixSocket) THEN o.httpUnixSocket
           ELSE IF o.https \/ Given(o.httpsPort) \/ Given(o.httpsUnixSocket) THEN Null
           ELSE IF Given(o.port) THEN o.port
           ELSE IF Given(o.unixSocket) THEN o.unixSocket
           ELSE getPortListenerDefault(httpPortDefault)
<1> DEFINE c == <<Choice(Given(o.httpAddr), o.httpAddr),
            Choice(Given(o.httpPort), o.httpPort),
            Choice(Given(o.httpUnixSocket), o.httpUnixSocket),
            Choice(o.https \/ Given(o.httpsPort) \/ Given(o.httpsUnixSocket), Null),
            Choice(Given(o.port), o.port),
            Choice(Given(o.unixSocket), o.unixSocket),
            Choice(TRUE, getPortListenerDefault(httpPortDefault))>>
<1>1. DOMAIN c = 1..7
  OBVIOUS
<1>2. /\ c[1].applies <=> Given(o.httpAddr)
      /\ c[2].applies <=> Given(o.httpPort)
      /\ c[3].applies <=> Given(o.httpUnixSocket)
      /\ c[4].applies <=> o.https \/ Given(o.httpsPort) \/ Given(o.httpsUnixSocket)
      /\ c[5].applies <=> Given(o.port)
      /\ c[6].applies <=> Given(o.unixSocket)
      /\ c[7].applies
  BY DEF Choice
<1>3. /\ c[1].address = o.httpAddr
      /\ c[2].address = o.httpPort
      /\ c[3].address = o.httpUnixSocket
      /\ c[4].address = Null
      /\ c[5].address = o.port
      /\ c[6].address = o.unixSocket
      /\ c[7].address = getPortListenerDefault(httpPortDefault)
  BY DEF Choice
<1>4. \A n \in 1..7 : c[n].applies /\ (\A j \in 1..(n - 1) : ~c[j].applies)
        => FirstOf(c) = c[n].address
  BY <1>1, FirstOfApplies
<1>5. getHTTPListener(o) = FirstOf(c)
  BY DEF getHTTPListener
<1> HIDE DEF c
<1> QED
  BY <1>2, <1>3, <1>4, <1>5

\* The same for HTTPS, which also gives way to -port.
LEMMA HTTPSListener ==
  ASSUME NEW o, o.http \in BOOLEAN, o.https \in BOOLEAN
  PROVE  getNonSecureHTTPSListener(o) =
           IF Given(o.httpsAddr) THEN o.httpsAddr
           ELSE IF Given(o.httpsPort) THEN o.httpsPort
           ELSE IF Given(o.httpsUnixSocket) THEN o.httpsUnixSocket
           ELSE IF \/ o.http \/ Given(o.httpPort) \/ Given(o.httpUnixSocket)
                   \/ Given(o.port) THEN Null
           ELSE IF Given(o.port) THEN o.port
           ELSE IF Given(o.unixSocket) THEN o.unixSocket
           ELSE getPortListenerDefault(httpsPortDefault)
<1> DEFINE c == <<Choice(Given(o.httpsAddr), o.httpsAddr),
            Choice(Given(o.httpsPort), o.httpsPort),
            Choice(Given(o.httpsUnixSocket), o.httpsUnixSocket),
            Choice(o.http \/ Given(o.httpPort) \/ Given(o.httpUnixSocket)
                          \/ Given(o.port), Null),
            Choice(Given(o.port), o.port),
            Choice(Given(o.unixSocket), o.unixSocket),
            Choice(TRUE, getPortListenerDefault(httpsPortDefault))>>
<1>1. DOMAIN c = 1..7
  OBVIOUS
<1>2. /\ c[1].applies <=> Given(o.httpsAddr)
      /\ c[2].applies <=> Given(o.httpsPort)
      /\ c[3].applies <=> Given(o.httpsUnixSocket)
      /\ c[4].applies <=> \/ o.http \/ Given(o.httpPort) \/ Given(o.httpUnixSocket)
                           \/ Given(o.port)
      /\ c[5].applies <=> Given(o.port)
      /\ c[6].applies <=> Given(o.unixSocket)
      /\ c[7].applies
  BY DEF Choice
<1>3. /\ c[1].address = o.httpsAddr
      /\ c[2].address = o.httpsPort
      /\ c[3].address = o.httpsUnixSocket
      /\ c[4].address = Null
      /\ c[5].address = o.port
      /\ c[6].address = o.unixSocket
      /\ c[7].address = getPortListenerDefault(httpsPortDefault)
  BY DEF Choice
<1>4. \A n \in 1..7 : c[n].applies /\ (\A j \in 1..(n - 1) : ~c[j].applies)
        => FirstOf(c) = c[n].address
  BY <1>1, FirstOfApplies
<1>5. getNonSecureHTTPSListener(o) = FirstOf(c)
  BY DEF getNonSecureHTTPSListener
<1> HIDE DEF c
<1> QED
  BY <1>2, <1>3, <1>4, <1>5

-----------------------------------------------------------------------------
(* What main knows of its listeners at each point.                          *)

Running == phase \notin {"off", "aborted"}
Opened  == phase \in {"opening HTTPS", "up"}

StartInv ==
  /\ phase \in {"off", "started", "refused", "loading", "opening HTTP",
                "opening HTTPS", "up", "aborted"}
  /\ Running => options \in Invocations /\ env \in EnvPorts
  /\ files \subseteq Sockets
  /\ phase \in {"loading", "opening HTTP"} \/ Opened => ~Conflicting(options)
  /\ ~Opened => listeners = NoListener
  /\ phase = "opening HTTPS" =>
       listeners = [HTTP |-> getHTTPListener(options), HTTPS |-> Null]
  /\ phase = "up" =>
       listeners = [HTTP  |-> getHTTPListener(options),
                    HTTPS |-> getNonSecureHTTPSListener(options)]

\* A machine on which nothing was started satisfies it.
LEMMA StartInvInit == Init => StartInv
BY DEF Init, StartInit, StartInv, Running, Opened

\* Neither address depends on anything but the command line and PORT.
LEMMA AddressesStay ==
  UNCHANGED <<options, env>> =>
    /\ getHTTPListener(options)' = getHTTPListener(options)
    /\ getNonSecureHTTPSListener(options)' = getNonSecureHTTPSListener(options)
BY DEF getHTTPListener, getNonSecureHTTPSListener, getPortListenerDefault

\* Every step of main, a kill, the removal of a socket and every request keeps
\* what main knows.
LEMMA StartInvNext == StartInv /\ [Next]_vars => StartInv'
<1> SUFFICES ASSUME StartInv, [Next]_vars PROVE StartInv'
  OBVIOUS
<1> USE DEF StartInv, Running, Opened
<1>1. ASSUME UNCHANGED startVars PROVE StartInv'
  BY <1>1, AddressesStay DEF startVars
<1>2. CASE Start
  BY <1>2 DEF Start
<1>3. CASE checkConflictingOptions
  BY <1>3 DEF checkConflictingOptions
<1>4. CASE Load
  BY <1>4 DEF Load
<1>5. CASE OpenHTTP
  <2>1. listeners = NoListener
    BY <1>5 DEF OpenHTTP
  <2>2. CASE getHTTPListener(options) = Null
    BY <1>5, <2>1, <2>2, AddressesStay DEF OpenHTTP, Open, NoListener
  <2>3. CASE getHTTPListener(options) # Null /\ CanListen(getHTTPListener(options))
    BY <1>5, <2>1, <2>3, AddressesStay DEF OpenHTTP, Open, NoListener
  <2>4. CASE getHTTPListener(options) # Null /\ ~CanListen(getHTTPListener(options))
    BY <1>5, <2>4 DEF OpenHTTP, Open
  <2> QED
    BY <2>2, <2>3, <2>4
<1>6. CASE OpenHTTPS
  <2> DEFINE address == getNonSecureHTTPSListener(options)
  <2>1. listeners = [HTTP |-> getHTTPListener(options), HTTPS |-> Null]
    BY <1>6 DEF OpenHTTPS
  <2>2. CASE address = Null
    BY <1>6, <2>1, <2>2, AddressesStay DEF OpenHTTPS, Open
  <2>3. CASE address # Null /\ CanListen(address)
    BY <1>6, <2>1, <2>3, AddressesStay DEF OpenHTTPS, Open
  <2>4. CASE address # Null /\ ~CanListen(address)
    BY <1>6, <2>4 DEF OpenHTTPS, Open
  <2> QED
    BY <2>2, <2>3, <2>4
<1>7. CASE Kill
  BY <1>7 DEF Kill
<1>8. ASSUME NEW s \in Sockets, RemoveSocket(s) PROVE StartInv'
  BY <1>8 DEF RemoveSocket
<1>9. CASE Main
  BY <1>9, <1>2, <1>3, <1>4, <1>5, <1>6, <1>7, <1>8 DEF Main, StartNext
<1>10. CASE Request
  BY <1>10, <1>1 DEF Request
<1>11. CASE UNCHANGED vars
  BY <1>11, <1>1 DEF vars
<1> QED
  BY <1>9, <1>10, <1>11 DEF Next

\* The listeners are those the command line and PORT call for, from the moment
\* they are open, and no accepted command line has conflicting options.
THEOREM ListenersFollowOptions == Spec => []StartInv
<1>1. Init => StartInv
  BY StartInvInit
<1>2. StartInv /\ [Next]_vars => StartInv'
  BY StartInvNext
<1> QED
  BY <1>1, <1>2, PTL DEF Spec

-----------------------------------------------------------------------------
\* A process that is up without a listener was asked for HTTPS and, by -http or
\* -port, for HTTP: no other command line gets through main to serve nothing.
THEOREM SilenceExplained == Spec => []SilentOnlyWhenBothGiveWay
<1>1. StartInv => SilentOnlyWhenBothGiveWay
  <2> SUFFICES ASSUME StartInv, phase = "up", ~Serving
               PROVE  options.https /\ (options.http \/ Given(options.port))
    BY DEF SilentOnlyWhenBothGiveWay
  <2>1. options.http \in BOOLEAN /\ options.https \in BOOLEAN
    BY SwitchesAssumption DEF StartInv, Running
  <2>2. getHTTPListener(options) = Null /\ getNonSecureHTTPSListener(options) = Null
    BY DEF StartInv, Opened, Serving
  <2>3. /\ getPortListenerDefault(httpPortDefault) # Null
        /\ getPortListenerDefault(httpsPortDefault) # Null
    BY DefaultsAssumption DEF getPortListenerDefault, Given
  <2>4. /\ ~Given(options.httpAddr) /\ ~Given(options.httpPort)
        /\ ~Given(options.httpUnixSocket)
        /\ options.https \/ Given(options.httpsPort) \/ Given(options.httpsUnixSocket)
    BY <2>1, <2>2, <2>3, HTTPListener DEF Given
  <2>5. /\ ~Given(options.httpsPort) /\ ~Given(options.httpsUnixSocket)
        /\ \/ options.http \/ Given(options.httpPort) \/ Given(options.httpUnixSocket)
           \/ Given(options.port)
    BY <2>1, <2>2, <2>3, HTTPSListener DEF Given
  <2> QED
    BY <2>4, <2>5
<1> QED
  BY <1>1, ListenersFollowOptions, PTL

\* The port of one protocol alone silences the other one, and a protocol with an
\* address of its own is up there.
THEOREM ProtocolsFollowOptions == Spec => []ProtocolsAreThoseAskedFor
<1>1. StartInv => ProtocolsAreThoseAskedFor
  <2> SUFFICES ASSUME StartInv, phase = "up" PROVE ProtocolsAreThoseAskedFor
    BY DEF ProtocolsAreThoseAskedFor
  <2>1. options.http \in BOOLEAN /\ options.https \in BOOLEAN
    BY SwitchesAssumption DEF StartInv, Running
  <2>2. /\ listeners.HTTP = getHTTPListener(options)
        /\ listeners.HTTPS = getNonSecureHTTPSListener(options)
    BY DEF StartInv
  <2>3. ~Several(HTTPOptions(options)) /\ ~Several(HTTPSOptions(options))
    BY DEF StartInv, Opened, Conflicting
  <2>4. Given(options.httpPort) /\ ~Some(HTTPSOptions(options)) /\ ~options.https
          => listeners.HTTPS = Null
    <3>1. ~Some(HTTPSOptions(options)) =>
            /\ ~Given(options.httpsAddr) /\ ~Given(options.httpsPort)
            /\ ~Given(options.httpsUnixSocket)
      BY DEF Some, HTTPSOptions
    <3> QED
      BY <3>1, <2>1, <2>2, HTTPSListener
  <2>5. Given(options.httpsPort) /\ ~Some(HTTPOptions(options)) /\ ~options.http
          => listeners.HTTP = Null
    <3>1. ~Some(HTTPOptions(options)) =>
            /\ ~Given(options.httpAddr) /\ ~Given(options.httpPort)
            /\ ~Given(options.httpUnixSocket)
      BY DEF Some, HTTPOptions
    <3> QED
      BY <3>1, <2>1, <2>2, HTTPListener
  <2>6. ASSUME NEW i \in 1..3, HTTPOptions(options)[i] # Null
        PROVE  listeners.HTTP = HTTPOptions(options)[i]
    <3>1. \A j \in 1..3 : j # i => HTTPOptions(options)[j] = Null
      BY <2>3, <2>6 DEF Several, Given, HTTPOptions
    <3> QED
      BY <3>1, <2>1, <2>2, <2>6, HTTPListener DEF HTTPOptions, Given
  <2>7. ASSUME NEW i \in 1..3, HTTPSOptions(options)[i] # Null
        PROVE  listeners.HTTPS = HTTPSOptions(options)[i]
    <3>1. \A j \in 1..3 : j # i => HTTPSOptions(options)[j] = Null
      BY <2>3, <2>7 DEF Several, Given, HTTPSOptions
    <3> QED
      BY <3>1, <2>1, <2>2, <2>7, HTTPSListener DEF HTTPSOptions, Given
  <2> QED
    BY <2>4, <2>5, <2>6, <2>7 DEF ProtocolsAreThoseAskedFor
<1> QED
  BY <1>1, ListenersFollowOptions, PTL

\* The address of a protocol is one its own options or those of both give, or
\* PORT, or its default port: the last two only when its own are not given.
LEMMA HTTPFrom ==
  ASSUME NEW o, o.http \in BOOLEAN, o.https \in BOOLEAN, getHTTPListener(o) # Null
  PROVE  LET a == getHTTPListener(o) IN
         \/ \E i \in 1..3 : HTTPOptions(o)[i] = a
         \/ /\ ~o.https /\ ~Given(o.httpsPort) /\ ~Given(o.httpsUnixSocket)
            /\ \/ a = o.port
               \/ a = o.unixSocket
               \/ a = getPortListenerDefault(httpPortDefault) /\ ~Given(o.unixSocket)
<1>1. /\ HTTPOptions(o)[1] = o.httpUnixSocket
      /\ HTTPOptions(o)[2] = o.httpAddr
      /\ HTTPOptions(o)[3] = o.httpPort
  BY DEF HTTPOptions
<1> QED
  BY <1>1, HTTPListener DEF Given

LEMMA HTTPSFrom ==
  ASSUME NEW o, o.http \in BOOLEAN, o.https \in BOOLEAN,
         getNonSecureHTTPSListener(o) # Null
  PROVE  LET a == getNonSecureHTTPSListener(o) IN
         \/ \E i \in 1..3 : HTTPSOptions(o)[i] = a
         \/ /\ ~o.http /\ ~Given(o.httpPort) /\ ~Given(o.httpUnixSocket)
            /\ ~Given(o.port)
            /\ \/ a = o.unixSocket
               \/ a = getPortListenerDefault(httpsPortDefault) /\ ~Given(o.unixSocket)
<1>1. /\ HTTPSOptions(o)[1] = o.httpsUnixSocket
      /\ HTTPSOptions(o)[2] = o.httpsAddr
      /\ HTTPSOptions(o)[3] = o.httpsPort
  BY DEF HTTPSOptions
<1> QED
  BY <1>1, HTTPSListener DEF Given

\* The addresses the command line gives, to either protocol.
forHTTP == HTTPOptions(options) \o BothOptions(options)
given   == {a \in {forHTTP[i] : i \in 1..5}
                 \cup {HTTPSOptions(options)[i] : i \in 1..3} : Given(a)}
left    == files \ {listeners[p] : p \in DOMAIN listeners}

LEMMA ForHTTP ==
  /\ forHTTP[1] = HTTPOptions(options)[1]
  /\ forHTTP[2] = HTTPOptions(options)[2]
  /\ forHTTP[3] = HTTPOptions(options)[3]
  /\ forHTTP[4] = options.port
  /\ forHTTP[5] = options.unixSocket
BY DEF forHTTP, HTTPOptions, BothOptions

\* An address a protocol is sent to is given, or it is no socket and, unless it
\* is PORT, a number.
LEMMA AddressesGiven ==
  ASSUME StartInv, Running
  PROVE  /\ options.http \in BOOLEAN /\ options.https \in BOOLEAN
         /\ \A a \in {getHTTPListener(options), getNonSecureHTTPSListener(options)} :
              a # Null =>
                \/ a \in given
                \/ a \notin files /\ (a = NotANumber => env = NotANumber)
<1>1. /\ options.http \in BOOLEAN /\ options.https \in BOOLEAN
      /\ env \in EnvPorts /\ files \subseteq Sockets
  BY SwitchesAssumption DEF StartInv
<1>2. /\ \A i \in 1..5 : forHTTP[i] # Null => forHTTP[i] \in given
      /\ \A i \in 1..3 : HTTPSOptions(options)[i] # Null
                            => HTTPSOptions(options)[i] \in given
  BY DEF given, Given
<1>3. \A a \in {getPortListenerDefault(httpPortDefault),
                getPortListenerDefault(httpsPortDefault)} :
        a \notin files /\ (a = NotANumber => env = NotANumber)
  BY <1>1, SocketsAssumption, DefaultsAssumption DEF getPortListenerDefault
<1>4. ASSUME getHTTPListener(options) # Null
      PROVE  \/ getHTTPListener(options) \in given
             \/ getHTTPListener(options) = getPortListenerDefault(httpPortDefault)
  <2> DEFINE a == getHTTPListener(options)
  <2>1. \/ \E i \in 1..3 : HTTPOptions(options)[i] = a
        \/ a = options.port \/ a = options.unixSocket
        \/ a = getPortListenerDefault(httpPortDefault)
    BY <1>1, <1>4, HTTPFrom
  <2> HIDE DEF a
  <2>2. a # Null
    BY <1>4 DEF a
  <2>3. (\E i \in 1..5 : forHTTP[i] = a) \/ a = getPortListenerDefault(httpPortDefault)
    BY <2>1, ForHTTP
  <2> QED
    BY <2>2, <2>3, <1>2 DEF a
<1>5. ASSUME getNonSecureHTTPSListener(options) # Null
      PROVE  \/ getNonSecureHTTPSListener(options) \in given
             \/ getNonSecureHTTPSListener(options) =
                  getPortListenerDefault(httpsPortDefault)
  <2> DEFINE a == getNonSecureHTTPSListener(options)
  <2>1. \/ \E i \in 1..3 : HTTPSOptions(options)[i] = a
        \/ a = options.unixSocket
        \/ a = getPortListenerDefault(httpsPortDefault)
    BY <1>1, <1>5, HTTPSFrom
  <2> HIDE DEF a
  <2>2. a # Null
    BY <1>5 DEF a
  <2>3. forHTTP[5] = a \/ (\E i \in 1..3 : HTTPSOptions(options)[i] = a)
          \/ a = getPortListenerDefault(httpsPortDefault)
    BY <2>1, ForHTTP
  <2> QED
    BY <2>2, <2>3, <1>2 DEF a
<1> QED
  BY <1>1, <1>3, <1>4, <1>5

\* Both protocols are sent to one address only as AbortsOnlyOnAClash lists.
LEMMA OneAddress ==
  ASSUME ~Conflicting(options),
         options.http \in BOOLEAN, options.https \in BOOLEAN,
         getHTTPListener(options) # Null,
         getHTTPListener(options) = getNonSecureHTTPSListener(options)
  PROVE  \/ env \in given
         \/ \E j \in 1..3 : \/ HTTPOptions(options)[j] = httpsPortDefault
                          \/ HTTPSOptions(options)[j] = httpPortDefault
         \/ /\ ~options.http /\ ~options.https
            /\ Given(env) \/ Given(options.unixSocket)
         \/ \E i \in 1..5, j \in 1..3 : /\ Given(forHTTP[i])
                                        /\ forHTTP[i] = HTTPSOptions(options)[j]
<1> DEFINE address == getHTTPListener(options)
<1>2. \/ \E i \in 1..3 : HTTPOptions(options)[i] = address
      \/ /\ ~options.https /\ ~Given(options.httpsPort)
         /\ ~Given(options.httpsUnixSocket)
         /\ \/ address = options.port
            \/ address = options.unixSocket
            \/ /\ address = getPortListenerDefault(httpPortDefault)
               /\ ~Given(options.unixSocket)
  BY HTTPFrom
<1>3. \/ \E i \in 1..3 : HTTPSOptions(options)[i] = address
      \/ /\ ~options.http /\ ~Given(options.httpPort)
         /\ ~Given(options.httpUnixSocket) /\ ~Given(options.port)
         /\ \/ address = options.unixSocket
            \/ /\ address = getPortListenerDefault(httpsPortDefault)
               /\ ~Given(options.unixSocket)
  BY HTTPSFrom
<1> HIDE DEF address
<1>4. ~(Some(BothOptions(options)) /\ Some(HTTPOptions(options)))
  BY DEF Conflicting
<1>5. Given(options.unixSocket) \/ Given(options.port)
        => \A i \in 1..3 : ~Given(HTTPOptions(options)[i])
  <2>1. Given(options.unixSocket) \/ Given(options.port)
          => Some(BothOptions(options))
    <3>1. /\ DOMAIN BothOptions(options) = 1..2
          /\ BothOptions(options)[1] = options.port
          /\ BothOptions(options)[2] = options.unixSocket
      BY DEF BothOptions
    <3>2. QED
      BY <3>1 DEF Some
  <2>2. (\E i \in 1..3 : Given(HTTPOptions(options)[i])) => Some(HTTPOptions(options))
    <3>1. DOMAIN HTTPOptions(options) = 1..3
      BY DEF HTTPOptions
    <3> QED
      BY <3>1 DEF Some
  <2> QED
    BY <2>1, <2>2, <1>4
<1>6. Given(address)
  BY DEF Given, address
<1>7. CASE \E i \in 1..3 : HTTPSOptions(options)[i] = address
  <2>1. CASE \E i \in 1..5 : forHTTP[i] = address
    BY <1>6, <1>7, <2>1
  <2>2. CASE address = getPortListenerDefault(httpPortDefault)
    <3>1. address \in given
      BY <1>6, <1>7 DEF given
    <3> QED
      BY <1>7, <2>2, <3>1 DEF getPortListenerDefault
  <2>3. ASSUME NEW i \in 1..3, HTTPOptions(options)[i] = address PROVE forHTTP[i] = address /\ i \in 1..5
    BY <2>3, ForHTTP
  <2>4. forHTTP[4] = options.port /\ forHTTP[5] = options.unixSocket
    BY ForHTTP
  <2> QED
    BY <1>2, <2>1, <2>2, <2>3, <2>4
<1>8. CASE ~options.http /\ address = options.unixSocket
  BY <1>2, <1>5, <1>6, <1>8
<1>9. CASE ~options.http /\ address = getPortListenerDefault(httpsPortDefault)
            /\ ~Given(options.unixSocket) /\ ~Given(options.port)
  <2>1. CASE \E i \in 1..3 : HTTPOptions(options)[i] = address
    <3>1. address \in given
      <4>1. PICK i \in 1..3 : HTTPOptions(options)[i] = address
        BY <2>1
      <4>2. forHTTP[i] = address /\ i \in 1..5
        BY <4>1, ForHTTP
      <4> QED
        BY <4>2, <1>6 DEF given
    <3> QED
      BY <1>9, <2>1, <3>1 DEF getPortListenerDefault
  <2>2. CASE ~options.https /\ address = getPortListenerDefault(httpPortDefault)
    BY <1>9, <2>2, DefaultsAssumption DEF getPortListenerDefault
  <2> QED
    BY <1>2, <1>6, <1>9, <2>1, <2>2
<1> QED
  BY <1>3, <1>7, <1>8, <1>9

\* Whatever the command lines and the values of PORT: an accepted command line
\* fails to open a listener only over a socket an earlier process left, a PORT
\* that is no port, or one address for both protocols.
THEOREM StartsUnlessClashing == Spec => StartsUnlessAClash
<1>1. StartInv /\ [Next]_vars => [AbortsOnlyOnAClash]_startVars
  <2> SUFFICES ASSUME StartInv, [Next]_vars, phase' = "aborted", phase # "aborted"
               PROVE  AbortsOnlyOnAClash
    BY DEF AbortsOnlyOnAClash
  <2> DEFINE Clash ==
        \/ left \cap given # {}
        \/ NotANumber \in given \cup {env}
        \/ env \in given
        \/ \E j \in 1..3 : \/ HTTPOptions(options)[j] = httpsPortDefault
                         \/ HTTPSOptions(options)[j] = httpPortDefault
        \/ /\ ~options.http /\ ~options.https
           /\ Given(env) \/ Given(options.unixSocket)
        \/ \E i \in 1..5, j \in 1..3 : /\ Given(forHTTP[i])
                                       /\ forHTTP[i] = HTTPSOptions(options)[j]
  <2>1. Clash => AbortsOnlyOnAClash
    BY DEF AbortsOnlyOnAClash, left, given, forHTTP
  <2> HIDE DEF Clash
  <2>2. OpenHTTP \/ OpenHTTPS
    BY DEF Next, Main, StartNext, Request, vars, startVars, Start, Load, Kill,
           checkConflictingOptions, RemoveSocket
  <2>3. ASSUME NEW a, a # Null, ~CanListen(a),
               \/ a = getHTTPListener(options)
               \/ a = getNonSecureHTTPSListener(options),
               \A p \in DOMAIN listeners : listeners[p] # a,
               Running
        PROVE  Clash
    <3>1. a = NotANumber \/ a \in files
      BY <2>3 DEF CanListen
    <3>2. \/ a \in given
          \/ a \notin files /\ (a = NotANumber => env = NotANumber)
      BY <2>3, AddressesGiven
    <3>3. a \in files => a \in left
      BY <2>3 DEF left
    <3> QED
      BY <3>1, <3>2, <3>3 DEF Clash
  <2>4. CASE OpenHTTP
    <3>1. /\ phase = "opening HTTP"
          /\ getHTTPListener(options) # Null /\ ~CanListen(getHTTPListener(options))
      BY <2>4 DEF OpenHTTP, Open
    <3>2. \A p \in DOMAIN listeners : listeners[p] = Null
      <4>1. listeners = NoListener
        BY <3>1 DEF StartInv, Opened
      <4>2. /\ DOMAIN NoListener = {"HTTP", "HTTPS"}
            /\ NoListener["HTTP"] = Null /\ NoListener["HTTPS"] = Null
        BY DEF NoListener
      <4> QED
        BY <4>1, <4>2
    <3> QED
      BY <2>1, <2>3, <3>1, <3>2 DEF Running
  <2>5. CASE OpenHTTPS
    <3> DEFINE a == getNonSecureHTTPSListener(options)
    <3>1. phase = "opening HTTPS" /\ a # Null /\ ~CanListen(a)
      BY <2>5 DEF OpenHTTPS, Open
    <3>2. listeners = [HTTP |-> getHTTPListener(options), HTTPS |-> Null]
      BY <3>1 DEF StartInv
    <3> HIDE DEF a
    <3>3. CASE a = getHTTPListener(options)
      <4>1. /\ ~Conflicting(options)
            /\ options.http \in BOOLEAN /\ options.https \in BOOLEAN
        BY <3>1, AddressesGiven DEF StartInv, Opened, Running
      <4> QED
        BY <2>1, <3>1, <3>3, <4>1, OneAddress DEF Clash, a
    <3>4. CASE a # getHTTPListener(options)
      <4>1. \A p \in DOMAIN listeners : listeners[p] # a
        <5>1. /\ DOMAIN listeners = {"HTTP", "HTTPS"}
              /\ listeners["HTTP"] = getHTTPListener(options)
              /\ listeners["HTTPS"] = Null
          BY <3>2
        <5> QED
          BY <5>1, <3>1, <3>4
      <4> QED
        BY <2>1, <2>3, <3>1, <4>1 DEF Running, a
    <3> QED
      BY <3>3, <3>4
  <2> QED
    BY <2>2, <2>4, <2>5
<1> QED
  BY <1>1, ListenersFollowOptions, PTL DEF Spec, StartsUnlessAClash

-----------------------------------------------------------------------------
(* Routes                                                                   *)

\* A request that has a route has one of those that may come first in the
\* table; its handler keeps both until it answers.
RouteOK(c) ==
  handlers[c].stage \in {"routed", "opted in"} =>
    /\ DOMAIN handlers[c] = {"stage", "request", "route", "ids"}
    /\ handlers[c].route \in
         FirstRoutes(handlers[c].request.verb, handlers[c].request.path)

RoutedInv ==
  /\ DOMAIN handlers = Clients
  /\ \A c \in Clients : RouteOK(c)

\* Two patterns that match the same path overlap.
LEMMA MatchesOverlap ==
  ASSUME NEW p \in Seq([param : BOOLEAN, name : STRING]),
         NEW q \in Seq([param : BOOLEAN, name : STRING]),
         NEW path, Matches(p, path), Matches(q, path)
  PROVE  Overlapping(p, q) /\ DOMAIN p = DOMAIN q
<1>1. Len(p) = Len(q) /\ DOMAIN p = DOMAIN q
  <2>1. DOMAIN p = 1 .. Len(p) /\ DOMAIN q = 1 .. Len(q)
    OBVIOUS
  <2>2. Len(p) = Len(q)
    BY DEF Matches
  <2>3. QED
    BY <2>1, <2>2
<1>2. \A i \in DOMAIN p : ~p[i].param /\ ~q[i].param => p[i].name = q[i].name
  BY <1>1 DEF Matches
<1>3. QED
  BY <1>1, <1>2 DEF Overlapping

\* A pattern has finitely many parameters.
LEMMA ParamsFinite ==
  ASSUME NEW p \in Seq([param : BOOLEAN, name : STRING])
  PROVE  IsFiniteSet(ParamsOf(p))
<1>1. IsFiniteSet(1 .. Len(p))
  BY FS_Interval
<1>2. ParamsOf(p) \subseteq 1 .. Len(p)
  BY DEF ParamsOf
<1>3. QED
  BY <1>1, <1>2, FS_Subset

\* A route that may come first has a literal segment wherever another matching
\* route has one: having no more parameters it is the special case of the two.
LEMMA FirstIsSpecial ==
  ASSUME NEW verb, NEW path, NEW r \in FirstRoutes(verb, path),
         NEW other \in MatchingRoutes(verb, path)
  PROVE  ParamsOf(r.pattern) \subseteq ParamsOf(other.pattern)
<1>1. /\ r \in Routes /\ other \in Routes /\ r.verb = other.verb
      /\ Matches(r.pattern, path) /\ Matches(other.pattern, path)
      /\ Cardinality(ParamsOf(r.pattern)) <= Cardinality(ParamsOf(other.pattern))
  BY DEF FirstRoutes, MatchingRoutes
<1>2. /\ r.pattern \in Seq([param : BOOLEAN, name : STRING])
      /\ other.pattern \in Seq([param : BOOLEAN, name : STRING])
  BY <1>1, PatternsAssumption
<1>3. Overlapping(r.pattern, other.pattern)
  BY <1>1, <1>2, MatchesOverlap
<1>4. CASE ParamsOf(other.pattern) \subseteq ParamsOf(r.pattern)
  <2>1. IsFiniteSet(ParamsOf(r.pattern))
    BY <1>2, ParamsFinite
  <2>2. Cardinality(ParamsOf(other.pattern)) <= Cardinality(ParamsOf(r.pattern))
    BY <1>4, <2>1, FS_Subset
  <2>3. Cardinality(ParamsOf(r.pattern)) = Cardinality(ParamsOf(other.pattern))
    BY <1>1, <1>2, <2>2, ParamsFinite, FS_CardinalityType
  <2>4. QED
    BY <1>4, <2>1, <2>3, FS_Subset
<1>5. QED
  BY <1>1, <1>3, <1>4, OverlapsAssumption

\* A request that is not refused takes one of the first routes.
LEMMA RoutesTaken ==
  ASSUME NEW r, NEW routing \in routeRequest(r.verb, r.path), ~Refused(r, routing)
  PROVE  routing.route \in FirstRoutes(r.verb, r.path)
BY DEF routeRequest, Refused

\* Every step of a handler keeps its route.
LEMMA RoutedNext == RoutedInv /\ [Next]_vars => RoutedInv'
<1> SUFFICES ASSUME RoutedInv, [Next]_vars PROVE RoutedInv'
  OBVIOUS
<1>1. CASE UNCHANGED handlers
  BY <1>1 DEF RoutedInv, RouteOK, FirstRoutes, MatchingRoutes
<1>2. CASE handlers' = [c \in Clients |-> Idle]
  BY <1>2 DEF RoutedInv, RouteOK, Idle
<1>3. ASSUME NEW c \in Clients, NEW h, handlers' = [handlers EXCEPT ![c] = h],
             h.stage \notin {"routed", "opted in"}
      PROVE  RoutedInv'
  <2>1. \A d \in Clients : handlers'[d] = IF d = c THEN h ELSE handlers[d]
    BY <1>3 DEF RoutedInv
  <2>2. QED
    BY <1>3, <2>1 DEF RoutedInv, RouteOK
<1>4. ASSUME NEW c \in Clients, HandleRequest(c) PROVE RoutedInv'
  <2> DEFINE r == handlers[c].request
  <2>1. PICK routing \in routeRequest(r.verb, r.path) :
          IF Refused(r, routing)
          THEN OtherAnswer(c, "refused")
          ELSE handlers' = [handlers EXCEPT
                 ![c] = [stage |-> "routed", request |-> r,
                         route |-> routing.route, ids |-> routing.ids]]
    BY <1>4 DEF HandleRequest
  <2>2. CASE Refused(r, routing)
    BY <1>3, <2>1, <2>2 DEF OtherAnswer, Answer
  <2>3. CASE ~Refused(r, routing)
    <3>1. routing.route \in FirstRoutes(r.verb, r.path)
      BY <2>3, RoutesTaken
    <3> DEFINE h == [stage |-> "routed", request |-> r,
                     route |-> routing.route, ids |-> routing.ids]
    <3>2. /\ DOMAIN handlers' = Clients
          /\ \A d \in Clients : handlers'[d] = IF d = c THEN h ELSE handlers[d]
      BY <2>1, <2>3 DEF RoutedInv
    <3>3. RouteOK(c)'
      <4>1. handlers'[c] = h
        BY <3>2
      <4>2. DOMAIN h = {"stage", "request", "route", "ids"} /\ h.route = routing.route
            /\ h.request = r
        OBVIOUS
      <4> HIDE DEF h
      <4>3. handlers'[c].route \in
              FirstRoutes(handlers'[c].request.verb, handlers'[c].request.path)
        BY <3>1, <4>1, <4>2
      <4>4. QED
        BY <4>1, <4>2, <4>3 DEF RouteOK, FirstRoutes, MatchingRoutes
    <3>4. ASSUME NEW d \in Clients, d # c PROVE RouteOK(d)'
      BY <3>2, <3>4 DEF RouteOK, RoutedInv, FirstRoutes, MatchingRoutes
    <3>5. QED
      BY <3>2, <3>3, <3>4 DEF RoutedInv
  <2>4. QED
    BY <2>2, <2>3
<1>5. ASSUME NEW c \in Clients, OptIn(c) PROVE RoutedInv'
  <2>1. handlers[c].stage = "routed" /\ RouteOK(c)
    BY <1>5 DEF OptIn, RoutedInv
  <2>2. /\ DOMAIN handlers' = Clients
        /\ \A d \in Clients : d # c => handlers'[d] = handlers[d]
        /\ handlers'[c] = [handlers[c] EXCEPT !.stage = "opted in"]
    BY <1>5 DEF OptIn, RoutedInv
  <2>3. /\ DOMAIN handlers'[c] = DOMAIN handlers[c]
        /\ handlers'[c].request = handlers[c].request
        /\ handlers'[c].route = handlers[c].route
    BY <2>1, <2>2 DEF RouteOK
  <2>4. QED
    BY <2>1, <2>2, <2>3 DEF RoutedInv, RouteOK, FirstRoutes, MatchingRoutes
<1>6. ASSUME NEW c \in Clients,
             \/ Receive(c) \/ Done(c) \/ Redirect(c) \/ handleControlRequest(c)
             \/ maybeHandleStatefulRequest(c)
      PROVE  RoutedInv'
  BY <1>3, <1>6 DEF Receive, Done, Idle, Redirect, handleControlRequest,
     maybeHandleStatefulRequest, OtherAnswer, Answer
<1>7. CASE Main
  BY <1>1, <1>2, <1>7 DEF Main, pipelineVars
<1>8. CASE Request
  BY <1>4, <1>5, <1>6, <1>8 DEF Request, PipelineNext
<1>9. CASE UNCHANGED vars
  BY <1>1, <1>9 DEF vars, pipelineVars
<1>10. QED
  BY <1>7, <1>8, <1>9 DEF Next

\* Whatever order the sort leaves routes with equally many parameters in, the
\* route of a request has a literal segment wherever another route that matches
\* its path has one: /v1/charges/search never retrieves the Charge "search".
THEOREM LiteralsWin == Spec => []LiteralSegmentWins
<1>1. Init => RoutedInv
  <2> SUFFICES ASSUME Init PROVE RoutedInv
    OBVIOUS
  <2>1. DOMAIN handlers = Clients /\ \A c \in Clients : handlers[c].stage = "idle"
    BY DEF Init, PipelineInit, Idle
  <2>2. QED
    BY <2>1 DEF RoutedInv, RouteOK
<1>2. RoutedInv => LiteralSegmentWins
  <2> SUFFICES ASSUME RoutedInv, NEW c \in Clients,
                      handlers[c].stage \in {"routed", "opted in"},
                      NEW other \in MatchingRoutes(handlers[c].request.verb,
                                                   handlers[c].request.path),
                      NEW i \in DOMAIN handlers[c].route.pattern,
                      handlers[c].route.pattern[i].param
               PROVE  other.pattern[i].param
    BY DEF LiteralSegmentWins
  <2>1. ParamsOf(handlers[c].route.pattern) \subseteq ParamsOf(other.pattern)
    <3>1. handlers[c].route \in
            FirstRoutes(handlers[c].request.verb, handlers[c].request.path)
      BY DEF RoutedInv, RouteOK
    <3>2. PICK verb, path : /\ verb = handlers[c].request.verb
                            /\ path = handlers[c].request.path
      OBVIOUS
    <3>3. PICK r : r = handlers[c].route
      OBVIOUS
    <3>4. r \in FirstRoutes(verb, path) /\ other \in MatchingRoutes(verb, path)
      BY <3>1, <3>2, <3>3
    <3>5. ParamsOf(r.pattern) \subseteq ParamsOf(other.pattern)
      BY <3>4, FirstIsSpecial
    <3>6. QED
      BY <3>3, <3>5
  <2>2. QED
    BY <2>1 DEF ParamsOf
<1>3. QED
  BY <1>1, <1>2, RoutedNext, PTL DEF Spec

-----------------------------------------------------------------------------
(* Every worker has a stateful layer of its own                             *)

\* The tests' requests are taken for what they ask for: RequestsAreUnderstood,
\* of all requests that may be sent.
AllUnderstood == \A c \in Clients : \A r \in Received(c) : Understood(r)

\* What a handler knows of its request: it is one of its client's; past the
\* checks it has a route it may be given and is not refused.
HandlerOK(c, h) ==
  /\ h.stage \in {"idle", "received", "routed", "opted in", "answered"}
  /\ h.stage \in {"received", "routed", "opted in"} => h.request \in Received(c)
  /\ h.stage \in {"routed", "opted in"} =>
       /\ DOMAIN h = {"stage", "request", "route", "ids"}
       /\ ~Redirected(h.request.path) /\ ~isControlRequest(h.request.path)
       /\ \E routing \in routeRequest(h.request.verb, h.request.path) :
            ~Refused(h.request, routing) /\ h.route = routing.route /\ h.ids = routing.ids
  /\ h.stage = "opted in" => h.request.stateful
  /\ h.stage = "answered" => [by |-> h.by, op |-> h.op, id |-> h.id] # None

HandlersInv ==
  /\ handlers = [c \in Clients |-> handlers[c]]
  /\ \A c \in Clients : HandlerOK(c, handlers[c])

\* What is known of a request from what it asks for.
LEMMA AsksKnown ==
  ASSUME NEW c \in Clients, NEW r \in Received(c)
  PROVE  /\ r.asks \in {x.asks : x \in UNION {Requests[d] : d \in Clients}}
         /\ r.asks # None /\ r.asks.worker \in Workers
         /\ \A by \in {"refused", "control", "generator", "stateful"} :
              [by |-> by, op |-> r.asks.op, id |-> r.asks.id] # None
<1>1. PICK x \in Requests[c] : r = [x EXCEPT !.path = DoubleSlashFix(x.path)]
  BY DEF Received
<1>2. r.asks = x.asks
  BY <1>1, RequestsAssumption
<1>3. x \in UNION {Requests[d] : d \in Clients}
  OBVIOUS
<1> QED
  BY <1>2, <1>3, RequestsAssumption

\* However a worker sends its key, its requests belong to its session.
LEMMA SessionKnown ==
  ASSUME NEW c \in Clients, NEW r \in Received(c),
         isControlRequest(r.path) \/ validateAuth(r.auth)
  PROVE  sessionID(r) = SessionOf[r.asks.worker]
<1> DEFINE key == SessionOf[r.asks.worker]
<1>1. SentBy(r, r.asks.worker)
  BY KeysAssumption
<1>2. CASE r.session # None
  BY <1>1, <1>2 DEF SentBy, sessionID
<1>3. CASE r.session = None
  <2>1. /\ key \in [kind : STRING, mode : STRING, rest : STRING, colon : {FALSE}]
        /\ r.auth # None /\ r.auth.readable
        /\ \/ r.auth.scheme = "Bearer" /\ r.auth.key = key
           \/ r.auth.scheme = "Basic" /\ r.auth.key \in {key, [key EXCEPT !.colon = TRUE]}
    BY <1>1, <1>3 DEF SentBy
  <2>2. [key EXCEPT !.colon = FALSE] = key
    BY <2>1
  <2>3. [[key EXCEPT !.colon = TRUE] EXCEPT !.colon = FALSE] = key
    BY <2>1
  <2>4. key # None
    BY AsksKnown, SessionsAssumption
  <2> HIDE DEF key
  <2>5. apiKeyFromAuth(r.auth) = key
    BY <2>1, <2>2, <2>3 DEF apiKeyFromAuth
  <2>6. QED
    BY <1>3, <2>4, <2>5 DEF sessionID, key
<1> QED
  BY <1>2, <1>3

\* What becomes of the workers' layers when a session is switched or written.
LEMMA Layers ==
  ASSUME NEW w \in Workers
  PROVE  /\ w \in optedIn <=> SessionOf[w] \in enabled
         /\ holding[w] = objectsOf(SessionOf[w])
         /\ enabled' = enabled \cup {SessionOf[w]} => optedIn' = optedIn \cup {w}
         /\ enabled' = enabled \ {SessionOf[w]} => optedIn' = optedIn \ {w}
BY SessionsAssumption DEF optedIn, holding

LEMMA Writes ==
  ASSUME NEW w \in Workers, NEW ids, Store(SessionOf[w], ids)
  PROVE  holding' = [holding EXCEPT ![w] = ids]
<1> DEFINE s == SessionOf[w]
<1>1. stored' = [t \in DOMAIN stored \cup {s} |-> IF t = s THEN ids ELSE stored[t]]
  BY DEF Store
<1>2. ASSUME NEW v \in Workers
      PROVE  objectsOf(SessionOf[v])' = IF v = w THEN ids ELSE objectsOf(SessionOf[v])
  BY <1>1, SessionsAssumption DEF objectsOf
<1> QED
  BY <1>2 DEF holding

LEMMA Empties ==
  ASSUME NEW w \in Workers,
         stored' = [t \in DOMAIN stored \ {SessionOf[w]} |-> stored[t]]
  PROVE  holding' = [holding EXCEPT ![w] = {}]
<1>1. ASSUME NEW v \in Workers
      PROVE  objectsOf(SessionOf[v])' = IF v = w THEN {} ELSE objectsOf(SessionOf[v])
  BY <1>1, SessionsAssumption DEF objectsOf
<1> QED
  BY <1>1 DEF holding

\* What the client of a handler sees of its next state.
LEMMA OneHandler ==
  ASSUME HandlersInv, NEW c \in Clients, NEW h, handlers' = [handlers EXCEPT ![c] = h],
         HandlerOK(c, h)
  PROVE  /\ HandlersInv'
         /\ h.stage = "idle" => /\ asking' = [asking EXCEPT ![c] = None]
                                /\ told' = [told EXCEPT ![c] = None]
         /\ h.stage \in {"received", "routed", "opted in"} =>
              /\ asking' = [asking EXCEPT ![c] = h.request.asks]
              /\ told' = [told EXCEPT ![c] = None]
         /\ h.stage = "answered" =>
              /\ asking' = [asking EXCEPT ![c] = None]
              /\ told' = [told EXCEPT ![c] = [by |-> h.by, op |-> h.op, id |-> h.id]]
<1>1. \A d \in Clients : handlers'[d] = IF d = c THEN h ELSE handlers[d]
  BY DEF HandlersInv
<1>2. HandlersInv'
  BY <1>1 DEF HandlersInv
<1>3. h.stage \in {"idle", "answered"} <=> h.stage = "idle" \/ h.stage = "answered"
  OBVIOUS
<1>4. asking' = [asking EXCEPT ![c] = IF h.stage \in {"idle", "answered"}
                                      THEN None ELSE h.request.asks]
  <2>1. \A d \in Clients :
          asking'[d] = IF d = c THEN IF h.stage \in {"idle", "answered"}
                                     THEN None ELSE h.request.asks
                       ELSE asking[d]
    BY <1>1, <1>3 DEF asking, Busy, Answered
  <2>2. asking' = [d \in Clients |-> asking'[d]]
    BY DEF asking
  <2>3. asking = [d \in Clients |-> asking[d]]
    BY DEF asking
  <2>4. QED
    BY <2>1, <2>2, <2>3
<1>5. told' = [told EXCEPT ![c] = IF h.stage = "answered"
                                  THEN [by |-> h.by, op |-> h.op, id |-> h.id]
                                  ELSE None]
  <2>1. \A d \in Clients :
          told'[d] = IF d = c THEN IF h.stage = "answered"
                                   THEN [by |-> h.by, op |-> h.op, id |-> h.id]
                                   ELSE None
                     ELSE told[d]
    BY <1>1 DEF told, Answered
  <2>2. told' = [d \in Clients |-> told'[d]] /\ told = [d \in Clients |-> told[d]]
    BY DEF told
  <2>3. QED
    BY <2>1, <2>2
<1> HIDE DEF HandlersInv
<1> QED
  BY <1>2, <1>4, <1>5

\* What the client of a handler sees of it now.
LEMMA Seen ==
  ASSUME HandlersInv, NEW c \in Clients
  PROVE  /\ handlers[c].stage \in {"received", "routed", "opted in"} =>
              /\ asking[c] = handlers[c].request.asks /\ asking[c] # None
              /\ handlers[c].request \in Received(c)
         /\ handlers[c].stage \in {"idle", "answered"} => asking[c] = None
         /\ handlers[c].stage = "answered" <=> told[c] # None
<1>1. HandlerOK(c, handlers[c])
  BY DEF HandlersInv
<1> QED
  BY <1>1, AsksKnown DEF HandlerOK, asking, told, Busy, Answered

\* An answer to what the request asked for.
LEMMA AnswerIsTold ==
  ASSUME HandlersInv, NEW c \in Clients,
         handlers[c].stage \in {"received", "routed", "opted in"},
         NEW by \in {"refused", "control", "generator", "stateful"},
         Answer(c, by, handlers[c].request.asks.op, handlers[c].request.asks.id)
  PROVE  HandlersInv' /\ Promise!Answer(c, by)
<1> DEFINE a == handlers[c].request.asks
<1>1. asking[c] = a /\ handlers[c].request \in Received(c)
  BY Seen
<1>2. [by |-> by, op |-> a.op, id |-> a.id] # None
  BY <1>1, AsksKnown
<1>0. PICK h : h = [stage |-> "answered", by |-> by, op |-> a.op, id |-> a.id]
  OBVIOUS
<1>3. h.stage = "answered" /\ h.by = by /\ h.op = a.op /\ h.id = a.id
  BY <1>0
<1>4. handlers' = [handlers EXCEPT ![c] = h]
  BY <1>0 DEF Answer
<1>5. HandlerOK(c, h)
  BY <1>2, <1>3 DEF HandlerOK
<1>6. /\ HandlersInv'
      /\ asking' = [asking EXCEPT ![c] = None]
      /\ told' = [told EXCEPT ![c] = [by |-> h.by, op |-> h.op, id |-> h.id]]
  BY <1>3, <1>4, <1>5, OneHandler
<1> QED
  BY <1>1, <1>3, <1>6 DEF Promise!Answer

\* The workers' layers are read off the sessions alone.
LEMMA LayersStay ==
  UNCHANGED <<enabled, stored>> => UNCHANGED <<optedIn, holding>>
BY DEF optedIn, holding, objectsOf

\* The steps before a session is looked at: a request arrives, is refused by
\* the redirect or by the checks, or goes on unseen; its answer is taken.
LEMMA ReceiveStep ==
  ASSUME HandlersInv, NEW c \in Clients, Receive(c)
  PROVE  HandlersInv' /\ Promise!Ask(c)
<1>1. PICK r \in Requests[c] :
        handlers' = [handlers EXCEPT
          ![c] = [stage |-> "received",
                  request |-> [r EXCEPT !.path = DoubleSlashFix(r.path)]]]
  BY DEF Receive
<1> DEFINE x == [r EXCEPT !.path = DoubleSlashFix(r.path)]
<1>2. x \in Received(c)
  BY DEF Received
<1>a. PICK h : h = [stage |-> "received", request |-> x]
  OBVIOUS
<1>3. handlers' = [handlers EXCEPT ![c] = h] /\ h.stage = "received" /\ h.request = x
  BY <1>1, <1>a
<1> HIDE DEF x
<1>4. HandlerOK(c, h)
  BY <1>2, <1>3 DEF HandlerOK
<1>5. /\ HandlersInv'
      /\ asking' = [asking EXCEPT ![c] = h.request.asks]
      /\ told' = [told EXCEPT ![c] = None]
  BY <1>3, <1>4, OneHandler
<1>6. asking[c] = None /\ told[c] = None
  BY Seen DEF Receive
<1>7. told' = told
  BY <1>5, <1>6 DEF told
<1>8. UNCHANGED <<optedIn, holding>>
  BY LayersStay DEF Receive
<1> QED
  BY <1>2, <1>3, <1>5, <1>6, <1>7, <1>8, AsksKnown DEF Promise!Ask

LEMMA DoneStep ==
  ASSUME HandlersInv, NEW c \in Clients, Done(c)
  PROVE  HandlersInv' /\ Promise!Done(c)
<1>1. PICK h : h = Idle
  OBVIOUS
<1>2. HandlerOK(c, h) /\ h.stage = "idle" /\ handlers' = [handlers EXCEPT ![c] = h]
  BY <1>1 DEF HandlerOK, Idle, Done
<1>3. /\ HandlersInv'
      /\ asking' = [asking EXCEPT ![c] = None] /\ told' = [told EXCEPT ![c] = None]
  BY <1>1, <1>2, OneHandler
<1>4. asking[c] = None /\ told[c] # None
  BY Seen DEF Done
<1>5. asking' = asking
  BY <1>3, <1>4 DEF asking
<1>6. UNCHANGED <<optedIn, holding>>
  BY LayersStay DEF Done
<1> QED
  BY <1>3, <1>4, <1>5, <1>6 DEF Promise!Done

LEMMA RedirectStep ==
  ASSUME HandlersInv, AllUnderstood, NEW c \in Clients, Redirect(c)
  PROVE  HandlersInv' /\ Promise!Refuse(c) /\ asking[c] # None
<1> DEFINE r == handlers[c].request
<1>1. handlers[c].stage = "received"
  BY DEF Redirect
<1>2. asking[c] = r.asks /\ asking[c] # None /\ r \in Received(c)
  BY <1>1, Seen
<1>3. ~r.asks.valid
  BY <1>2 DEF AllUnderstood, Understood, Redirect
<1>4. Answer(c, "refused", r.asks.op, r.asks.id)
  BY DEF Redirect, OtherAnswer
<1>5. HandlersInv' /\ Promise!Answer(c, "refused")
  BY <1>1, <1>4, AnswerIsTold
<1>6. UNCHANGED <<optedIn, holding>>
  BY LayersStay DEF Redirect
<1> QED
  BY <1>2, <1>3, <1>5, <1>6 DEF Promise!Refuse

LEMMA CheckStep ==
  ASSUME HandlersInv, AllUnderstood, NEW c \in Clients, HandleRequest(c)
  PROVE  /\ HandlersInv' /\ asking[c] # None
         /\ Promise!Refuse(c) \/ UNCHANGED <<optedIn, holding, asking, told>>
<1> DEFINE r == handlers[c].request
<1>1. handlers[c].stage = "received" /\ ~Redirected(r.path) /\ ~isControlRequest(r.path)
  BY DEF HandleRequest
<1>2. asking[c] = r.asks /\ asking[c] # None /\ r \in Received(c)
  BY <1>1, Seen
<1>3. UNCHANGED <<optedIn, holding>>
  BY LayersStay DEF HandleRequest
<1>4. PICK routing \in routeRequest(r.verb, r.path) :
        IF Refused(r, routing)
        THEN OtherAnswer(c, "refused")
        ELSE handlers' = [handlers EXCEPT
               ![c] = [stage |-> "routed", request |-> r,
                       route |-> routing.route, ids |-> routing.ids]]
  BY DEF HandleRequest
<1>5. CASE Refused(r, routing)
  <2>1. ~r.asks.valid
    BY <1>1, <1>2, <1>5 DEF AllUnderstood, Understood
  <2>2. Answer(c, "refused", r.asks.op, r.asks.id)
    BY <1>4, <1>5 DEF OtherAnswer
  <2>3. HandlersInv' /\ Promise!Answer(c, "refused")
    BY <1>1, <2>2, AnswerIsTold
  <2>4. QED
    BY <1>2, <1>3, <2>1, <2>3 DEF Promise!Refuse
<1>6. CASE ~Refused(r, routing)
  <2>0. PICK h : h = [stage |-> "routed", request |-> r,
                      route |-> routing.route, ids |-> routing.ids]
    OBVIOUS
  <2>1. /\ DOMAIN h = {"stage", "request", "route", "ids"}
        /\ h.stage = "routed" /\ h.request = r
        /\ h.route = routing.route /\ h.ids = routing.ids
    BY <2>0
  <2>2. handlers' = [handlers EXCEPT ![c] = h]
    BY <1>4, <1>6, <2>0
  <2>3. HandlerOK(c, h)
    BY <1>1, <1>2, <1>6, <2>1 DEF HandlerOK
  <2>4. /\ HandlersInv'
        /\ asking' = [asking EXCEPT ![c] = h.request.asks]
        /\ told' = [told EXCEPT ![c] = None]
    BY <2>1, <2>2, <2>3, OneHandler
  <2>5. told[c] = None
    BY <1>1, Seen
  <2>6. /\ asking = [d \in Clients |-> asking[d]]
        /\ told = [d \in Clients |-> told[d]]
    BY DEF asking, told
  <2>7. asking[c] = h.request.asks
    BY <1>2, <2>1
  <2>8. asking' = asking /\ told' = told
    BY <2>4, <2>5, <2>6, <2>7
  <2>9. QED
    BY <1>2, <1>3, <2>4, <2>8
<1> QED
  BY <1>5, <1>6

\* A request past the checks: its session and what it was understood as.
LEMMA RoutedKnown ==
  ASSUME HandlersInv, AllUnderstood, NEW c \in Clients,
         handlers[c].stage \in {"routed", "opted in"}
  PROVE  LET r == handlers[c].request IN
         /\ asking[c] = r.asks /\ asking[c] # None /\ r.asks.worker \in Workers
         /\ sessionID(r) = SessionOf[r.asks.worker]
         /\ r.asks.valid /\ (r.asks.stateful <=> r.stateful)
         /\ RouteUnderstood(r, handlers[c].route, handlers[c].ids)
<1> DEFINE r == handlers[c].request
<1>1. HandlerOK(c, handlers[c])
  BY DEF HandlersInv
<1>2. /\ asking[c] = r.asks /\ asking[c] # None /\ r \in Received(c)
      /\ ~Redirected(r.path) /\ ~isControlRequest(r.path)
  BY <1>1, Seen DEF HandlerOK
<1>3. PICK routing \in routeRequest(r.verb, r.path) :
        /\ ~Refused(r, routing)
        /\ handlers[c].route = routing.route /\ handlers[c].ids = routing.ids
  BY <1>1 DEF HandlerOK
<1>4. /\ r.asks.valid /\ (r.asks.stateful <=> r.stateful)
      /\ RouteUnderstood(r, handlers[c].route, handlers[c].ids)
  BY <1>2, <1>3 DEF AllUnderstood, Understood
<1>5. validateAuth(r.auth)
  BY <1>3 DEF Refused
<1> QED
  BY <1>2, <1>4, <1>5, AsksKnown, SessionKnown

\* The opt-in header switches on the layer of the worker that sent it.
LEMMA OptInStep ==
  ASSUME HandlersInv, AllUnderstood, NEW c \in Clients, OptIn(c)
  PROVE  HandlersInv' /\ Promise!OptIn(c) /\ asking[c] # None
<1> DEFINE r == handlers[c].request
<1>1. handlers[c].stage = "routed" /\ r.stateful
  BY DEF OptIn
<1>2. /\ asking[c] = r.asks /\ asking[c] # None /\ r.asks.worker \in Workers
      /\ sessionID(r) = SessionOf[r.asks.worker]
      /\ r.asks.valid /\ r.asks.stateful
  BY <1>1, RoutedKnown
<1>3. optedIn' = optedIn \cup {r.asks.worker}
  BY <1>2, Layers DEF OptIn
<1>4. holding' = holding
  BY DEF OptIn, holding, objectsOf
<1>5. HandlerOK(c, handlers[c])
  BY DEF HandlersInv
<1>6. PICK h : h = [handlers[c] EXCEPT !.stage = "opted in"]
  OBVIOUS
<1>7. handlers' = [handlers EXCEPT ![c] = h]
  BY <1>6 DEF OptIn
<1>8. DOMAIN handlers[c] = {"stage", "request", "route", "ids"}
  BY <1>1, <1>5 DEF HandlerOK
<1>9. /\ h.stage = "opted in" /\ h.request = handlers[c].request
      /\ h.route = handlers[c].route /\ h.ids = handlers[c].ids
      /\ DOMAIN h = DOMAIN handlers[c]
  BY <1>6, <1>8
<1>10. HandlerOK(c, h)
  BY <1>1, <1>5, <1>9 DEF HandlerOK
<1>11. /\ HandlersInv'
       /\ asking' = [asking EXCEPT ![c] = h.request.asks]
       /\ told' = [told EXCEPT ![c] = None]
  BY <1>7, <1>9, <1>10, OneHandler
<1>12. /\ asking = [d \in Clients |-> asking[d]]
       /\ told = [d \in Clients |-> told[d]]
  BY DEF asking, told
<1>13. told[c] = None /\ asking[c] = h.request.asks
  BY <1>1, <1>2, <1>9, Seen
<1>14. asking' = asking /\ told' = told
  BY <1>11, <1>12, <1>13
<1> QED
  BY <1>2, <1>3, <1>4, <1>11, <1>14 DEF Promise!OptIn

\* What the stateful layer does for a request is what the request asks for,
\* and nothing when it reads what the session does not hold.
LEMMA OpsKnown ==
  ASSUME NEW r, NEW route, NEW ids, NEW objects, RouteUnderstood(r, route, ids)
  PROVE  StatefulOps(r, route, ids, objects) =
           IF \/ r.asks.op \in Promise!Transitions
              \/ r.asks.op \in Promise!Reads /\ r.asks.needs \in objects
           THEN {[op |-> r.asks.op, id |-> r.asks.id]} ELSE {}
<1> DEFINE a     == r.asks
           acts  == paymentIntentActionForRequest(r.path, ids.primary)
           reads == r.verb = "GET" /\ ids.own /\ ids.primary \in objects
           ops(condition, name, id) == {op \in {[op |-> name, id |-> id]} : condition}
           lists == /\ r.verb = "GET" /\ r.intent # None /\ Len(r.path) >= 2
                    /\ SubSeq(r.path, Len(r.path) - 1, Len(r.path)) = <<"v1", "charges">>
           intent(verb) == route.resource = "payment_intent" /\ r.verb = verb
           some == \/ a.op \in Promise!Transitions
                   \/ a.op \in Promise!Reads /\ a.needs \in objects
           none == ParamPositions(route.pattern) = <<>>
<1>1. acts \in {"update", "confirm", "capture", "cancel", "unsimulated"}
  BY DEF paymentIntentActionForRequest
<1>2. Promise!Transitions \ {"create"} = {"update", "confirm", "capture", "cancel"}
  BY DEF Promise!Transitions
<1>3. /\ a.op = "list_charges" <=> lists
      /\ a.op = "retrieve_charge" <=> /\ route.resource = "charge" /\ r.verb = "GET"
                                      /\ ids.own
      /\ a.op = "retrieve" <=> intent("GET") /\ ids.own
      /\ a.op = "create" <=> intent("POST") /\ none
      /\ \A action \in {"update", "confirm", "capture", "cancel"} :
           a.op = action <=> intent("POST") /\ ids.own /\ acts = action
      /\ a.op \in Promise!Reads \cup Promise!Transitions \cup {"other"}
      /\ lists => a.id = r.intent /\ a.needs = ChargeOf[r.intent]
      /\ a.op \in {"retrieve", "retrieve_charge"} => a.id = ids.primary /\ a.needs = a.id
      /\ a.op = "create" => a.id = None
      /\ a.op \in {"update", "confirm", "capture", "cancel"} => a.id = ids.primary
  BY <1>2 DEF RouteUnderstood
<1>4. ListsCharges(r, objects) <=> lists /\ ChargeOf[r.intent] \in objects
  BY DEF ListsCharges
<1>5. StatefulOps(r, route, ids, objects) =
        IF ListsCharges(r, objects) THEN ops(TRUE, "list_charges", r.intent)
        ELSE CASE route.resource = "charge" -> ops(reads, "retrieve_charge", ids.primary)
               [] route.resource = "payment_intent" ->
                    ops(reads, "retrieve", ids.primary)
                    \cup ops(r.verb = "POST" /\ none, "create", None)
                    \cup ops(r.verb = "POST" /\ ids.own /\ acts # "unsimulated",
                             acts, ids.primary)
               [] OTHER -> {}
  BY DEF StatefulOps
<1>6. \A name, id : ops(TRUE, name, id) = {[op |-> name, id |-> id]}
                    /\ ops(FALSE, name, id) = {}
  OBVIOUS
<1>7. /\ a.op \in Promise!Reads <=> a.op \in {"retrieve", "retrieve_charge", "list_charges"}
      /\ a.op \in Promise!Transitions
           <=> a.op \in {"create", "update", "confirm", "capture", "cancel"}
  BY DEF Promise!Reads, Promise!Transitions
<1> HIDE DEF acts, lists, none
<1>8. CASE lists
  <2>1. a.op = "list_charges" /\ r.verb = "GET"
    BY <1>3, <1>8 DEF lists
  <2>2. some <=> ListsCharges(r, objects)
    BY <1>3, <1>4, <1>7, <1>8, <2>1
  <2>3. ~(route.resource = "charge" /\ reads) /\ ~(route.resource = "payment_intent" /\ reads)
    BY <1>3, <2>1
  <2>4. QED
    BY <1>3, <1>5, <1>8, <2>1, <2>2, <2>3
<1>9. CASE ~lists /\ route.resource = "charge"
  <2>1. some <=> reads
    BY <1>3, <1>7, <1>9
  <2>2. reads => a.op = "retrieve_charge" /\ a.id = ids.primary
    BY <1>3, <1>9
  <2>3. QED
    BY <1>4, <1>5, <1>9, <2>1, <2>2
<1>10. CASE ~lists /\ intent("GET")
  <2>1. some <=> reads
    BY <1>3, <1>7, <1>10
  <2>2. reads => a.op = "retrieve" /\ a.id = ids.primary
    BY <1>3, <1>10
  <2>3. StatefulOps(r, route, ids, objects) = ops(reads, "retrieve", ids.primary)
    BY <1>4, <1>5, <1>10
  <2>4. QED
    BY <2>1, <2>2, <2>3
<1>11. CASE ~lists /\ intent("POST")
  <2>1. StatefulOps(r, route, ids, objects) =
          ops(none, "create", None) \cup ops(ids.own /\ acts # "unsimulated", acts, ids.primary)
    BY <1>4, <1>5, <1>11
  <2>2. CASE none
    BY <1>1, <1>3, <1>7, <1>11, <2>1, <2>2
  <2>3. CASE ~none /\ ids.own /\ acts # "unsimulated"
    BY <1>1, <1>3, <1>7, <1>11, <2>1, <2>3
  <2>4. CASE ~none /\ ~(ids.own /\ acts # "unsimulated")
    BY <1>1, <1>3, <1>7, <1>11, <2>1, <2>4
  <2>5. QED
    BY <2>2, <2>3, <2>4
<1>12. CASE ~lists /\ route.resource # "charge" /\ ~intent("GET") /\ ~intent("POST")
  <2>1. ~some
    BY <1>3, <1>7, <1>12
  <2>2. StatefulOps(r, route, ids, objects) = {}
    BY <1>4, <1>5, <1>12
  <2>3. QED
    BY <2>1, <2>2
<1> QED
  BY <1>8, <1>9, <1>10, <1>11, <1>12

\* A step of the stateful layer is the worker's, on what its layer holds.
LEMMA StatefulStep ==
  ASSUME HandlersInv, AllUnderstood, NEW c \in Clients, maybeHandleStatefulRequest(c)
  PROVE  /\ HandlersInv' /\ asking[c] # None
         /\ Promise!Generate(c) \/ Promise!Simulate(c)
<1> DEFINE r   == handlers[c].request
           a   == r.asks
           w   == a.worker
           s   == sessionID(r)
           ops == IF s \in enabled
                  THEN StatefulOps(r, handlers[c].route, handlers[c].ids, objectsOf(s))
                  ELSE {}
<1>1. handlers[c].stage \in {"routed", "opted in"}
  BY DEF maybeHandleStatefulRequest
<1>2. /\ asking[c] = a /\ asking[c] # None /\ w \in Workers
      /\ s = SessionOf[w] /\ a.valid
      /\ RouteUnderstood(r, handlers[c].route, handlers[c].ids)
  BY <1>1, RoutedKnown
<1>3. (w \in optedIn <=> s \in enabled) /\ holding[w] = objectsOf(s)
  BY <1>2, Layers
<1>4. ops = IF Promise!Simulated(a) THEN {[op |-> a.op, id |-> a.id]} ELSE {}
  BY <1>2, <1>3, OpsKnown DEF Promise!Simulated
<1>5. /\ \/ /\ ops = {}
            /\ OtherAnswer(c, "generator")
            /\ UNCHANGED stored
         \/ \E op \in ops :
              /\ Answer(c, "stateful", op.op, op.id)
              /\ \/ UNCHANGED stored
                 \/ /\ op.op \in {"create", "update", "confirm", "capture", "cancel"}
                    /\ \E id \in IF op.op = "create" THEN Minted ELSE {op.id} :
                       \E charges \in SUBSET {ChargeOf[id]} :
                         Store(s, objectsOf(s) \cup {id} \cup charges)
      /\ UNCHANGED enabled
  BY DEF maybeHandleStatefulRequest
<1>6. optedIn' = optedIn
  BY <1>5 DEF optedIn
<1>7. stored' = stored => holding' = holding
  BY DEF holding, objectsOf
<1> HIDE DEF ops
<1>8. CASE ~Promise!Simulated(a)
  <2>1. Answer(c, "generator", a.op, a.id) /\ stored' = stored
    BY <1>4, <1>5, <1>8 DEF OtherAnswer
  <2>2. HandlersInv' /\ Promise!Answer(c, "generator")
    BY <1>1, <2>1, AnswerIsTold
  <2>3. a.op \notin Promise!ControlOps
    BY <1>2 DEF RouteUnderstood, Promise!Reads, Promise!Transitions, Promise!ControlOps
  <2>4. QED
    BY <1>2, <1>6, <1>7, <1>8, <2>1, <2>2, <2>3 DEF Promise!Generate
<1>9. CASE Promise!Simulated(a)
  <2>1. ops = {[op |-> a.op, id |-> a.id]}
    BY <1>4, <1>9
  <2> PICK op : op = [op |-> a.op, id |-> a.id]
    OBVIOUS
  <2>0. ops = {op} /\ op.op = a.op /\ op.id = a.id
    BY <2>1
  <2>2. /\ Answer(c, "stateful", a.op, a.id)
        /\ \/ UNCHANGED stored
           \/ /\ a.op \in {"create", "update", "confirm", "capture", "cancel"}
              /\ \E id \in IF a.op = "create" THEN Minted ELSE {a.id} :
                 \E charges \in SUBSET {ChargeOf[id]} :
                   Store(s, objectsOf(s) \cup {id} \cup charges)
    BY <1>5, <2>0
  <2>3. HandlersInv' /\ Promise!Answer(c, "stateful")
    BY <1>1, <2>2, AnswerIsTold
  <2>4. IF a.op \in Promise!Reads THEN holding' = holding
        ELSE \E new \in SUBSET Ids :
               /\ a.op # "create" => new \subseteq {a.id, a.charge}
               /\ holding' = [holding EXCEPT ![w] = @ \cup new]
    <3>1. CASE UNCHANGED stored
      <4>1. holding' = holding
        BY <1>7, <3>1
      <4>2. holding = [holding EXCEPT ![w] = @ \cup {}]
        BY DEF holding
      <4>3. QED
        BY <4>1, <4>2
    <3>2. ASSUME a.op \in {"create", "update", "confirm", "capture", "cancel"},
                 NEW id \in IF a.op = "create" THEN Minted ELSE {a.id},
                 NEW charges \in SUBSET {ChargeOf[id]},
                 Store(s, objectsOf(s) \cup {id} \cup charges)
          PROVE  \E new \in SUBSET Ids :
                   /\ a.op # "create" => new \subseteq {a.id, a.charge}
                   /\ holding' = [holding EXCEPT ![w] = @ \cup new]
      <4> DEFINE new == {id} \cup charges
      <4>1. a.op # "create" => a.charge = ChargeOf[a.id] /\ {a.id, a.charge} \subseteq Ids
        BY <1>2, <3>2 DEF RouteUnderstood, Promise!Transitions
      <4>2. new \subseteq Ids
        BY <4>1, IdsAssumption
      <4>3. a.op # "create" => new \subseteq {a.id, a.charge}
        BY <4>1
      <4>4. objectsOf(s) \cup {id} \cup charges = holding[w] \cup new
        BY <1>3
      <4>5. holding' = [holding EXCEPT ![w] = holding[w] \cup new]
        BY <1>2, <3>2, <4>4, Writes
      <4>6. QED
        BY <4>2, <4>3, <4>5
    <3>3. a.op \in {"create", "update", "confirm", "capture", "cancel"}
            => a.op \notin Promise!Reads
      BY DEF Promise!Reads
    <3>4. QED
      BY <2>2, <3>1, <3>2, <3>3
  <2>5. QED
    BY <1>2, <1>6, <1>9, <2>3, <2>4 DEF Promise!Simulate
<1> QED
  BY <1>8, <1>9

\* A control request acts on the layer of the worker that sent it.
LEMMA ControlStep ==
  ASSUME HandlersInv, AllUnderstood, NEW c \in Clients, handleControlRequest(c)
  PROVE  /\ HandlersInv' /\ asking[c] # None
         /\ Promise!Refuse(c) \/ Promise!Control(c)
<1> DEFINE r        == handlers[c].request
           a        == r.asks
           w        == a.worker
           s        == sessionID(r)
           tail     == SubSeq(r.path, 3, Len(r.path))
           readable == r.data # "unparsable"
           posts(endpoint) == <<r.verb, tail>> = <<"POST", endpoint>>
           gets(endpoint)  == <<r.verb, tail>> = <<"GET", endpoint>>
           emits    == /\ r.verb = "POST" /\ Len(tail) = 3
                       /\ tail[1] = "payment_intents" /\ tail[3] = "emit"
           reads    == \/ <<r.verb, tail>> \in {<<"GET", <<"payment_intents">>>>,
                                                <<"GET", <<"events">>>>}
                       \/ emits /\ tail[2] \in objectsOf(s) \cap DOMAIN ChargeOf
<1>1. /\ handlers[c].stage = "received" /\ ~Redirected(r.path)
      /\ isControlRequest(r.path)
  BY DEF handleControlRequest
<1>2. asking[c] = a /\ asking[c] # None /\ r \in Received(c)
  BY <1>1, Seen
<1>3. w \in Workers /\ s = SessionOf[w]
  BY <1>1, <1>2, AsksKnown, SessionKnown
<1>4. ControlUnderstood(r)
  BY <1>1, <1>2 DEF AllUnderstood, Understood
<1>5. /\ posts(<<"reset">>) <=> a.valid /\ a.op = "reset"
      /\ posts(<<"config">>) /\ readable /\ r.flag # FALSE
           <=> a.valid /\ a.op = "config on"
      /\ posts(<<"config">>) /\ readable /\ r.flag = FALSE
           <=> a.valid /\ a.op = "config off"
      /\ posts(<<"payment_intents">>) /\ readable <=> a.valid /\ a.op = "seed"
      /\ gets(<<"payment_intents">>) <=> a.valid /\ a.op = "list"
      /\ gets(<<"events">>) <=> a.valid /\ a.op = "drain"
      /\ emits <=> a.valid /\ a.op = "emit"
  BY <1>4 DEF ControlUnderstood
<1>6. /\ a.valid => a.op \in Promise!ControlOps
      /\ a.valid /\ a.op \in {"reset", "config on", "config off"} => a.id = None
      /\ a.valid /\ a.op = "seed" => a.id = r.intent
      /\ a.valid /\ a.op = "emit" => a.needs = tail[2] /\ a.needs \in DOMAIN ChargeOf
  BY <1>4 DEF ControlUnderstood
<1>7. holding[w] = objectsOf(s)
  BY <1>3, Layers
<1>8. reads <=> /\ a.valid
                /\ \/ a.op \in {"list", "drain"}
                   \/ a.op = "emit" /\ a.needs \in holding[w]
  BY <1>5, <1>6, <1>7
<1>9. \/ /\ posts(<<"reset">>)
         /\ Answer(c, "control", "reset", None)
         /\ enabled' = enabled \ {s}
         /\ stored' = [t \in DOMAIN stored \ {s} |-> stored[t]]
      \/ /\ posts(<<"config">>) /\ readable
         /\ IF r.flag = FALSE
            THEN Answer(c, "control", "config off", None) /\ enabled' = enabled \ {s}
            ELSE Answer(c, "control", "config on", None) /\ enabled' = enabled \cup {s}
         /\ UNCHANGED stored
      \/ /\ posts(<<"payment_intents">>) /\ readable
         /\ Answer(c, "control", "seed", r.intent)
         /\ Store(s, objectsOf(s) \cup {r.intent})
         /\ enabled' = enabled \cup {s}
      \/ /\ reads
         /\ OtherAnswer(c, "control")
         /\ UNCHANGED <<enabled, stored>>
      \/ /\ ~(\/ posts(<<"reset">>)
              \/ posts(<<"config">>) /\ readable
              \/ posts(<<"payment_intents">>) /\ readable
              \/ reads)
         /\ OtherAnswer(c, "refused")
         /\ UNCHANGED <<enabled, stored>>
  BY DEF handleControlRequest
<1>10. stored' = stored => holding' = holding
  BY DEF holding, objectsOf
<1>11. /\ enabled' = enabled => optedIn' = optedIn
       /\ enabled' = enabled \cup {s} => optedIn' = optedIn \cup {w}
       /\ enabled' = enabled \ {s} => optedIn' = optedIn \ {w}
  BY <1>3, Layers DEF optedIn
<1>12. ASSUME NEW by \in {"refused", "control"}, Answer(c, by, a.op, a.id)
       PROVE  HandlersInv' /\ Promise!Answer(c, by)
  BY <1>1, <1>12, AnswerIsTold
<1> HIDE DEF readable, posts, gets, emits, reads, s, tail
<1>13. CASE /\ posts(<<"reset">>)
            /\ Answer(c, "control", "reset", None)
            /\ enabled' = enabled \ {s}
            /\ stored' = [t \in DOMAIN stored \ {s} |-> stored[t]]
  <2>1. a.valid /\ a.op = "reset" /\ a.id = None
    BY <1>5, <1>6, <1>13
  <2>2. holding' = [holding EXCEPT ![w] = {}]
    BY <1>3, <1>13, Empties
  <2>3. HandlersInv' /\ Promise!Answer(c, "control")
    BY <1>12, <1>13, <2>1
  <2>4. QED
    BY <1>2, <1>11, <1>13, <2>1, <2>2, <2>3 DEF Promise!Control
<1>14. CASE /\ posts(<<"config">>) /\ readable
            /\ IF r.flag = FALSE
               THEN Answer(c, "control", "config off", None) /\ enabled' = enabled \ {s}
               ELSE Answer(c, "control", "config on", None) /\ enabled' = enabled \cup {s}
            /\ UNCHANGED stored
  <2>1. CASE r.flag = FALSE
    <3>1. a.valid /\ a.op = "config off" /\ a.id = None
      BY <1>5, <1>6, <1>14, <2>1
    <3>2. HandlersInv' /\ Promise!Answer(c, "control")
      BY <1>12, <1>14, <2>1, <3>1
    <3>3. QED
      BY <1>2, <1>10, <1>11, <1>14, <2>1, <3>1, <3>2 DEF Promise!Control
  <2>2. CASE r.flag # FALSE
    <3>1. a.valid /\ a.op = "config on" /\ a.id = None
      BY <1>5, <1>6, <1>14, <2>2
    <3>2. HandlersInv' /\ Promise!Answer(c, "control")
      BY <1>12, <1>14, <2>2, <3>1
    <3>3. QED
      BY <1>2, <1>10, <1>11, <1>14, <2>2, <3>1, <3>2 DEF Promise!Control
  <2>3. QED
    BY <2>1, <2>2
<1>15. CASE /\ posts(<<"payment_intents">>) /\ readable
            /\ Answer(c, "control", "seed", r.intent)
            /\ Store(s, objectsOf(s) \cup {r.intent})
            /\ enabled' = enabled \cup {s}
  <2>1. a.valid /\ a.op = "seed" /\ a.id = r.intent
    BY <1>5, <1>6, <1>15
  <2>2. holding' = [holding EXCEPT ![w] = holding[w] \cup {a.id}]
    BY <1>3, <1>7, <1>15, <2>1, Writes
  <2>3. HandlersInv' /\ Promise!Answer(c, "control")
    BY <1>12, <1>15, <2>1
  <2>4. QED
    BY <1>2, <1>11, <1>15, <2>1, <2>2, <2>3 DEF Promise!Control
<1>16. CASE /\ reads
            /\ OtherAnswer(c, "control")
            /\ UNCHANGED <<enabled, stored>>
  <2>1. HandlersInv' /\ Promise!Answer(c, "control")
    BY <1>12, <1>16 DEF OtherAnswer
  <2>2. QED
    BY <1>2, <1>8, <1>10, <1>11, <1>16, <2>1 DEF Promise!Control
<1>17. CASE /\ ~(\/ posts(<<"reset">>)
                 \/ posts(<<"config">>) /\ readable
                 \/ posts(<<"payment_intents">>) /\ readable
                 \/ reads)
            /\ OtherAnswer(c, "refused")
            /\ UNCHANGED <<enabled, stored>>
  <2>1. HandlersInv' /\ Promise!Answer(c, "refused")
    BY <1>12, <1>17 DEF OtherAnswer
  <2>2. ~a.valid \/ (a.op = "emit" /\ a.needs \notin holding[w])
    BY <1>5, <1>6, <1>8, <1>17 DEF Promise!ControlOps
  <2>3. QED
    BY <1>2, <1>10, <1>11, <1>17, <2>1, <2>2 DEF Promise!Refuse
<1> QED
  BY <1>2, <1>9, <1>13, <1>14, <1>15, <1>16, <1>17

\* The start of the process, and its end, which empties every layer.
LEMMA MainStep ==
  ASSUME HandlersInv, Main
  PROVE  /\ HandlersInv'
         /\ Promise!Restart \/ UNCHANGED <<optedIn, holding, asking, told>>
<1>1. CASE UNCHANGED pipelineVars
  BY <1>1 DEF pipelineVars, HandlersInv, optedIn, holding, asking, told, objectsOf,
              Busy, Answered
<1>2. CASE /\ handlers' = [c \in Clients |-> Idle]
           /\ enabled' = {} /\ stored' = [s \in {} |-> {}]
  <2>1. \A c \in Clients : handlers'[c] = Idle /\ Idle.stage = "idle"
    BY <1>2 DEF Idle
  <2>2. \A c \in Clients : HandlerOK(c, Idle)
    BY DEF HandlerOK, Idle
  <2>3. HandlersInv'
    BY <1>2, <2>1, <2>2 DEF HandlersInv
  <2>4. optedIn' = {}
    BY <1>2 DEF optedIn
  <2>5. holding' = [w \in Workers |-> {}]
    <3>1. \A s : objectsOf(s)' = {}
      BY <1>2 DEF objectsOf
    <3>2. QED
      BY <3>1 DEF holding
  <2>6. asking' = [c \in Clients |-> None] /\ told' = [c \in Clients |-> None]
    BY <2>1 DEF asking, told, Busy, Answered
  <2>7. QED
    BY <2>3, <2>4, <2>5, <2>6 DEF Promise!Restart
<1> QED
  BY <1>1, <1>2 DEF Main

\* A machine on which nothing was started keeps the promise, and so does
\* every step.
LEMMA IsolationInit == Init => HandlersInv /\ Promise!Init
<1> SUFFICES ASSUME Init PROVE HandlersInv /\ Promise!Init
  OBVIOUS
<1>1. /\ handlers = [c \in Clients |-> Idle]
      /\ enabled = {} /\ stored = [s \in {} |-> {}]
  BY DEF Init, PipelineInit
<1>2. \A c \in Clients : handlers[c] = Idle /\ Idle.stage = "idle"
  BY <1>1 DEF Idle
<1>3. \A c \in Clients : HandlerOK(c, Idle)
  BY DEF HandlerOK, Idle
<1>4. HandlersInv
  BY <1>1, <1>2, <1>3 DEF HandlersInv
<1>5. optedIn = {} /\ holding = [w \in Workers |-> {}]
  BY <1>1 DEF optedIn, holding, objectsOf
<1>6. asking = [c \in Clients |-> None] /\ told = [c \in Clients |-> None]
  BY <1>2 DEF asking, told, Busy, Answered
<1> QED
  BY <1>4, <1>5, <1>6 DEF Promise!Init

LEMMA IsolationStep ==
  ASSUME HandlersInv, AllUnderstood, [Next]_vars
  PROVE  HandlersInv' /\ [Promise!Next]_<<optedIn, holding, asking, told>>
<1>1. CASE Main
  BY <1>1, MainStep DEF Promise!Next
<1>2. CASE Request
  <2>1. PICK c \in Clients :
          \/ Receive(c) \/ Done(c) \/ Redirect(c) \/ handleControlRequest(c)
          \/ HandleRequest(c) \/ OptIn(c) \/ maybeHandleStatefulRequest(c)
    BY <1>2 DEF Request, PipelineNext
  <2>2. \/ Promise!Ask(c) \/ Promise!Done(c)
        \/ asking[c] # None /\ (\/ Promise!OptIn(c) \/ Promise!Refuse(c)
                                \/ Promise!Generate(c) \/ Promise!Simulate(c)
                                \/ Promise!Control(c))
        => Promise!Next
    BY DEF Promise!Next
  <2>3. QED
    BY <2>1, <2>2, ReceiveStep, DoneStep, RedirectStep, ControlStep, CheckStep,
       OptInStep, StatefulStep
<1>3. CASE UNCHANGED vars
  BY <1>3 DEF vars, pipelineVars, HandlersInv, optedIn, holding, asking, told, objectsOf,
              Busy, Answered
<1> QED
  BY <1>1, <1>2, <1>3 DEF Next

\* Whatever requests of other workers come between, however often the process
\* restarts and for any number of workers, clients and kinds of requests: a
\* worker finds its own stateful layer and no other.
THEOREM WorkersIsolated ==
  ASSUME AllUnderstood
  PROVE  Spec => WorkersAreIsolated
<1>1. Init => HandlersInv /\ Promise!Init
  BY IsolationInit
<1>2. HandlersInv /\ [Next]_vars
        => HandlersInv' /\ [Promise!Next]_<<optedIn, holding, asking, told>>
  BY IsolationStep
<1>3. QED
  BY <1>1, <1>2, PTL DEF Spec, WorkersAreIsolated, Promise!IsolationSpec
=============================================================================
