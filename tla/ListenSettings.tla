--------------------------- MODULE ListenSettings ---------------------------
(***************************************************************************)
(* Under which addresses the console is reached (listen.ts, origin.ts,     *)
(* agent-origin.ts): pure functions of the environment, the machine's own  *)
(* addresses and a request's headers.  An address is its kind; an origin   *)
(* a host and a port.  lisEnv and lisRequest are chosen once; lisEnv.seen  *)
(* steps through the network interfaces coming and going.                  *)
(***************************************************************************)
EXTENDS Integers, FiniteSets

CONSTANTS RawPorts,   \* what an environment variable for a port may hold, 0: unset
          Addresses   \* the IPv4 addresses the machine may have

VARIABLES lisEnv,     \* the environment variables, and the addresses of the machine
          lisRequest  \* a request: the host of its URL, its headers

lisVars == <<lisEnv, lisRequest>>

Loopback == {"127.0.0.1", "::1", "localhost"}
Wildcard == {"0.0.0.0", "::", "[::]"}
BindNames == {"unset", "127.0.0.1", "::1", "0.0.0.0", "::", "[::]", "10.0.0.9", "fd00::9"}
EnvUrls == {"unset", "invalid", "proxy.example"}

\* advertisedIpv4Addresses leaves the internal interfaces out; none has a wildcard.
ASSUME AddressesAreForOthers == Addresses \cap (Loopback \cup Wildcard) = {}

\* A URL has a port of its own: 443 here.
Origin(host, port) == [host |-> host, port |-> port]
NoOrigin == Origin("none", 0)

IsPort(raw) == 1 <= raw /\ raw <= 65535
ParseListenPort(raw, fallback) == IF IsPort(raw) THEN raw ELSE fallback
Bind == IF lisEnv.bind = "unset" THEN "0.0.0.0" ELSE lisEnv.bind
WebPort == ParseListenPort(lisEnv.web, 3000)
AgentPort == ParseListenPort(lisEnv.agent, 3001)

\* An IPv6 literal is put in brackets.
Bracketed(host) == CASE host = "::" -> "[::]" [] host = "fd00::9" -> "[fd00::9]" [] OTHER -> host

\* MUTANT: only the wildcard of IPv4 is known as one.
ConsoleAgentOriginsIPv4 ==
    CASE lisEnv.explicit = "proxy.example" -> {Origin("proxy.example", 443)}
      [] lisEnv.explicit # "proxy.example" /\ lisEnv.public = "proxy.example" ->
            {Origin("proxy.example", AgentPort)}
      [] OTHER -> IF Bind = "0.0.0.0" THEN {Origin(a, AgentPort) : a \in lisEnv.addresses}
                  ELSE {Origin(Bracketed(Bind), AgentPort)}

\* consoleAgentOrigin, in its order of preference; the first address is any of them.
ConsoleAgentOrigins ==
    LET byBind == IF Bind \notin Loopback \cup {"0.0.0.0", "::"}
                  THEN {Origin(Bracketed(Bind), AgentPort)} ELSE {Origin("127.0.0.1", AgentPort)}
    IN  CASE lisEnv.explicit = "proxy.example" -> {Origin("proxy.example", 443)}
          [] lisEnv.explicit # "proxy.example" /\ lisEnv.public = "proxy.example" ->
                {Origin("proxy.example", AgentPort)}
          [] OTHER -> IF Bind \in Wildcard /\ lisEnv.addresses # {}
                      THEN {Origin(a, AgentPort) : a \in lisEnv.addresses} ELSE byBind

\* agentOriginFromWebOrigin, of a page opened at a host on some port
AgentOriginFromWebOrigin(web) ==
    IF lisEnv.explicit = "proxy.example" THEN Origin("proxy.example", 443)
    ELSE IF AgentPort # WebPort /\ web.port = WebPort THEN [web EXCEPT !.port = AgentPort] ELSE web

AdvertisedHosts ==
    {"127.0.0.1"} \cup (IF Bind \in Loopback THEN {}
                        ELSE IF Bind \in Wildcard THEN lisEnv.addresses ELSE {Bracketed(Bind)})
LanHosts ==
    IF AdvertisedHosts \subseteq Loopback THEN {"127.0.0.1"} ELSE AdvertisedHosts \ Loopback

\* expectedAgentOrigin: a port that is no port leaves the URL's own in place.
ExpectedAgentOrigin ==
    CASE lisEnv.explicit = "proxy.example" -> Origin("proxy.example", 443)
      [] lisEnv.explicit = "unset" /\ lisEnv.public = "proxy.example" ->
            Origin("proxy.example", IF lisEnv.agent = 0 THEN 3001
                                    ELSE ParseListenPort(lisEnv.agent, 443))
      [] OTHER -> NoOrigin
ValidateAgentOrigin(origin) == origin = NoOrigin \/ ExpectedAgentOrigin \in {NoOrigin, origin}

\* requestOrigin: headers count only when their host is on the allowlist.
Trusted(host) == host # "none" /\ host \in lisRequest.allowed
RequestHost ==
    CASE lisEnv.public = "proxy.example" -> "proxy.example"
      [] lisEnv.public # "proxy.example" /\ lisRequest.trustProxy /\ Trusted(lisRequest.forwarded) ->
            lisRequest.forwarded
      [] OTHER -> IF Trusted(lisRequest.header) THEN lisRequest.header ELSE "10.0.0.9"

----------------------------------------------------------------------------
HeaderHosts == {"none", "console.lan", "other.lan"}
PlainRequest == [trustProxy |-> FALSE, allowed |-> {}, header |-> "none", forwarded |-> "none"]

\* Only requestOrigin reads the request, and of the environment only one variable.
ListenInit ==
    \/ /\ lisRequest = PlainRequest
       /\ lisEnv \in [bind : BindNames, web : RawPorts, agent : RawPorts, explicit : EnvUrls,
                      public : EnvUrls, addresses : SUBSET Addresses]
    \/ /\ lisRequest \in [trustProxy : BOOLEAN, allowed : SUBSET {"console.lan"},
                           header : HeaderHosts, forwarded : HeaderHosts]
       /\ \E url \in EnvUrls :
             lisEnv = [bind |-> "unset", web |-> 0, agent |-> 0, explicit |-> "unset",
                       public |-> url, addresses |-> Addresses]

\* A cable is plugged in or out.
AddressesChange ==
    /\ \E a \in SUBSET Addresses : lisEnv' = [lisEnv EXCEPT !.addresses = a]
    /\ UNCHANGED lisRequest

ListenNext == AddressesChange
ListenSpec == ListenInit /\ [][ListenNext]_lisVars

----------------------------------------------------------------------------
\* What is baked into installers is an address a PC can dial: never the
\* wildcard the console is bound to, as long as the machine has an address
\* (the 0.0.0.0 loop that listen.ts tells of).
InstallersCanDial ==
    lisEnv.addresses # {} => \A o \in ConsoleAgentOrigins : o.host \notin Wildcard

\* The origin the console bakes in and the one it checks a socket against agree
\* whenever the second is known, for every port that is one.
OriginsAgree ==
    (lisEnv.agent = 0 \/ IsPort(lisEnv.agent)) /\ ExpectedAgentOrigin # NoOrigin =>
        /\ ConsoleAgentOrigins = {ExpectedAgentOrigin}
        /\ \A o \in ConsoleAgentOrigins : ValidateAgentOrigin(o)

\* The addresses shown for other computers are ones the console answers on, and
\* none of them is the browser's own machine unless there is no other.
LanUrlsAreForOthers ==
    /\ LanHosts \cap Loopback # {} => LanHosts = {"127.0.0.1"} /\ AdvertisedHosts \subseteq Loopback
    /\ LanHosts \subseteq AdvertisedHosts /\ LanHosts # {}

\* No header moves a page, a redirect or an installer to a host that the
\* administrator did not name.
HostIsNamed ==
    RequestHost \in {"10.0.0.9"} \cup lisRequest.allowed \cup {lisEnv.public}

\* The addresses the console gives out fit those who get them.
AddressesFit ==
    InstallersCanDial /\ OriginsAgree /\ LanUrlsAreForOthers /\ HostIsNamed
=============================================================================
