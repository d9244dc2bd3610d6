------------------------------- MODULE Startup -------------------------------
(***************************************************************************)
(* How the process comes up (main.go): the command line is checked for     *)
(* conflicting options, the specification and the fixtures are loaded, and *)
(* the HTTP and then the HTTPS listener are opened, the first already      *)
(* served while the second is opened.  Killed, the process releases its    *)
(* ports, but a Unix socket stays behind as a file; it may be started      *)
(* again, on any command line.                                             *)
(*                                                                         *)
(* An address is the value of an option: a port, FreePort for port 0, or   *)
(* the path of a socket.                                                   *)
(***************************************************************************)
EXTENDS Naturals, Sequences

CONSTANTS
  Null,                       \* an option, or PORT, that is not given
  FreePort, Sockets,          \* port 0, and the paths of Unix sockets
  httpPortDefault, httpsPortDefault,
  Invocations,                \* the command lines
  EnvPorts, NotANumber        \* values of PORT in the environment

\* The defaults are two ports, PORT holds a port or no number, and -http and
\* -https are switches.
ASSUME DefaultsAssumption ==
  /\ httpPortDefault # Null /\ httpsPortDefault # Null
  /\ httpPortDefault # httpsPortDefault
  /\ NotANumber \notin {httpPortDefault, httpsPortDefault}
ASSUME SocketsAssumption ==
  Sockets \cap (EnvPorts \cup {FreePort, httpPortDefault, httpsPortDefault}) = {}
ASSUME SwitchesAssumption ==
  \A o \in Invocations : o.http \in BOOLEAN /\ o.https \in BOOLEAN

VARIABLES
  phase,       \* where main is, or how the process ended
  options,     \* the command line of the process
  env,         \* PORT in its environment
  listeners,   \* protocol -> the address listened on, or Null
  files        \* the sockets that exist in the file system

startVars == <<phase, options, env, listeners, files>>

NoListener == [HTTP |-> Null, HTTPS |-> Null]

Given(v)    == v # Null
Some(vs)    == \E i \in DOMAIN vs : Given(vs[i])
Several(vs) == \E i, j \in DOMAIN vs : i # j /\ Given(vs[i]) /\ Given(vs[j])

\* The explicit ways to ask for one protocol, and for either.
HTTPOptions(o)  == <<o.httpUnixSocket, o.httpAddr, o.httpPort>>
HTTPSOptions(o) == <<o.httpsUnixSocket, o.httpsAddr, o.httpsPort>>
BothOptions(o)  == <<o.port, o.unixSocket>>

Conflicting(o) ==
  \/ Several(BothOptions(o))
  \/ o.http /\ Some(HTTPOptions(o))
  \/ Some(BothOptions(o)) /\ Some(HTTPOptions(o))
  \/ Several(HTTPOptions(o))
  \/ o.https /\ Some(HTTPSOptions(o))
  \* -http-addr is looked at where -https-addr is meant
  \/ /\ Some(BothOptions(o))
     /\ Some(<<o.httpsUnixSocket, o.httpAddr, o.httpsPort>>)
  \/ Several(HTTPSOptions(o))

\* The address of the first choice that applies.
Choice(applies, address) == [applies |-> applies, address |-> address]
FirstOf(choices) ==
  choices[CHOOSE i \in DOMAIN choices :
            choices[i].applies /\ \A j \in 1..(i - 1) : ~choices[j].applies].address

getPortListenerDefault(default) == IF Given(env) THEN env ELSE default

\* Mistaken forms of the two definitions that follow: HTTP silenced by -http,
\* HTTPS in spite of -http-port, and both on one default port.
SlipGetHTTPListener(o) ==
  FirstOf(<<Choice(Given(o.httpAddr), o.httpAddr),
            Choice(Given(o.httpPort), o.httpPort),
            Choice(Given(o.httpUnixSocket), o.httpUnixSocket),
            Choice(o.http \/ Given(o.httpsPort) \/ Given(o.httpsUnixSocket), Null),
            Choice(Given(o.port), o.port),
            Choice(Given(o.unixSocket), o.unixSocket),
            Choice(TRUE, getPortListenerDefault(httpPortDefault))>>)

SlipPortGivesWay(o) ==
  FirstOf(<<Choice(Given(o.httpsAddr), o.httpsAddr),
            Choice(Given(o.httpsPort), o.httpsPort),
            Choice(Given(o.httpsUnixSocket), o.httpsUnixSocket),
            Choice(o.http \/ Given(o.httpUnixSocket) \/ Given(o.port), Null),
            Choice(Given(o.unixSocket), o.unixSocket),
            Choice(TRUE, getPortListenerDefault(httpsPortDefault))>>)

SlipHTTPSDefault(o) ==
  FirstOf(<<Choice(Given(o.httpsAddr), o.httpsAddr),
            Choice(Given(o.httpsPort), o.httpsPort),
            Choice(Given(o.httpsUnixSocket), o.httpsUnixSocket),
            Choice(o.http \/ Given(o.httpPort) \/ Given(o.httpUnixSocket)
                          \/ Given(o.port), Null),
            Choice(Given(o.unixSocket), o.unixSocket),
            Choice(TRUE, getPortListenerDefault(httpPortDefault))>>)

\* The address each protocol is to listen on, Null when it is not to.
getHTTPListener(o) ==
  FirstOf(<<Choice(Given(o.httpAddr), o.httpAddr),
            Choice(Given(o.httpPort), o.httpPort),
            Choice(Given(o.httpUnixSocket), o.httpUnixSocket),
            Choice(o.https \/ Given(o.httpsPort) \/ Given(o.httpsUnixSocket), Null),
            Choice(Given(o.port), o.port),
            Choice(Given(o.unixSocket), o.unixSocket),
            Choice(TRUE, getPortListenerDefault(httpPortDefault))>>)

getNonSecureHTTPSListener(o) ==
  FirstOf(<<Choice(Given(o.httpsAddr), o.httpsAddr),
            Choice(Given(o.httpsPort), o.httpsPort),
            Choice(Given(o.httpsUnixSocket), o.httpsUnixSocket),
            Choice(o.http \/ Given(o.httpPort) \/ Given(o.httpUnixSocket)
                          \/ Given(o.port), Null),
            Choice(Given(o.port), o.port),
            Choice(Given(o.unixSocket), o.unixSocket),
            Choice(TRUE, getPortListenerDefault(httpsPortDefault))>>)

\* The operating system refuses an address in use, a socket whose file exists
\* and, before it is asked, main a PORT that is not a number.
CanListen(address) ==
  /\ address # NotANumber
  /\ address # FreePort => \A p \in DOMAIN listeners : listeners[p] # address
  /\ address \notin files

-----------------------------------------------------------------------------
StartInit ==
  /\ phase = "off" /\ listeners = NoListener /\ files = {}
  /\ options = Null /\ env = Null

\* The process is started, on any command line.
Start ==
  /\ phase = "off"
  /\ options' \in Invocations /\ env' \in EnvPorts
  /\ phase' = "started"
  /\ UNCHANGED <<listeners, files>>

checkConflictingOptions ==
  /\ phase = "started"
  /\ phase' = IF Conflicting(options) THEN "refused" ELSE "loading"
  /\ UNCHANGED <<options, env, listeners, files>>

\* The specification or the fixtures given on the command line may not load.
Load ==
  /\ phase = "loading"
  /\ phase' \in {"opening HTTP", "refused"}
  /\ UNCHANGED <<options, env, listeners, files>>

Open(protocol, address, next) ==
  /\ UNCHANGED <<options, env>>
  /\ \/ /\ address = Null
        /\ phase' = next
        /\ UNCHANGED <<listeners, files>>
     \/ /\ address # Null /\ CanListen(address)
        /\ phase' = next
        /\ listeners' = [listeners EXCEPT ![protocol] = address]
        /\ files' = files \cup ({address} \cap Sockets)
     \/ /\ address # Null /\ ~CanListen(address)
        /\ phase' = "aborted"
        /\ listeners' = NoListener
        /\ UNCHANGED files

OpenHTTP ==
  /\ phase = "opening HTTP"
  /\ Open("HTTP", getHTTPListener(options), "opening HTTPS")

OpenHTTPS ==
  /\ phase = "opening HTTPS"
  /\ Open("HTTPS", getNonSecureHTTPSListener(options), "up")

\* The process is killed, or the one that ended is forgotten.
Kill ==
  /\ phase # "off"
  /\ phase' = "off" /\ listeners' = NoListener
  /\ options' = Null /\ env' = Null
  /\ UNCHANGED files

RemoveSocket(s) ==
  /\ phase = "off" /\ s \in files
  /\ files' = files \ {s}
  /\ UNCHANGED <<phase, options, env, listeners>>

StartNext ==
  \/ Start \/ checkConflictingOptions \/ Load \/ OpenHTTP \/ OpenHTTPS \/ Kill
  \/ \E s \in Sockets : RemoveSocket(s)

\* The HTTP listener is served before the HTTPS listener is opened.
Serving == \E p \in DOMAIN listeners : listeners[p] # Null

-----------------------------------------------------------------------------
\* A command line that was accepted brings up at least one listener, and the
\* process then stays: main_test.go lists such command lines as valid.
AcceptedOptionsServe == phase # "aborted" /\ (phase = "up" => Serving)

\* Nothing listens only when each protocol left the other the place: -https
\* together with -http or -port.  Every other accepted command line serves.
SilentOnlyWhenBothGiveWay ==
  phase = "up" /\ ~Serving =>
    options.https /\ (options.http \/ Given(options.port))

\* Opening a listener fails only on a socket an earlier process left, on what
\* is no port, or when both protocols were sent to one address: explicitly, by
\* an option that names PORT or the default port of the other protocol, or by
\* -unix or PORT and no option that silences a protocol.
AbortsOnlyOnAClash ==
  LET left  == files \ {listeners[p] : p \in DOMAIN listeners}
      forHTTP == HTTPOptions(options) \o BothOptions(options)
      given == {a \in {forHTTP[i] : i \in 1..5}
                       \cup {HTTPSOptions(options)[i] : i \in 1..3} : Given(a)}
      both  == ~options.http /\ ~options.https
  IN phase' = "aborted" /\ phase # "aborted" =>
       \/ left \cap given # {}
       \/ NotANumber \in given \cup {env}
       \/ env \in given
       \/ \E j \in 1..3 : \/ HTTPOptions(options)[j] = httpsPortDefault
                        \/ HTTPSOptions(options)[j] = httpPortDefault
       \/ both /\ (Given(env) \/ Given(options.unixSocket))
       \/ \E i \in 1..5, j \in 1..3 : /\ Given(forHTTP[i])
                                      /\ forHTTP[i] = HTTPSOptions(options)[j]

StartsUnlessAClash == [][AbortsOnlyOnAClash]_startVars

\* README: leaving -http-port or -https-port out activates one protocol only,
\* and a protocol asked for by an address of its own is up at that address.
ProtocolsAreThoseAskedFor ==
  phase = "up" =>
    /\ Given(options.httpPort) /\ ~Some(HTTPSOptions(options))
         /\ ~options.https => listeners.HTTPS = Null
    /\ Given(options.httpsPort) /\ ~Some(HTTPOptions(options))
         /\ ~options.http => listeners.HTTP = Null
    /\ \A a \in {HTTPOptions(options)[i] : i \in 1..3} \ {Null} :
         listeners.HTTP = a
    /\ \A a \in {HTTPSOptions(options)[i] : i \in 1..3} \ {Null} :
         listeners.HTTPS = a
=============================================================================
