------------------------- MODULE ClientConfiguration -------------------------
(***************************************************************************)
(* From the setters of ClientConfigBuilder over the construction of a      *)
(* ClientImpl to what is in the requests that the client sends: which of   *)
(* the settings a client is built with, and which it refuses.              *)
(*                                                                         *)
(* Settings are small values; a certificate is good or bad, and of a       *)
(* request only the header fields count.                                   *)
(***************************************************************************)
EXTENDS BasicAuth, FiniteSets

CONSTANTS
    Hosts,          \* host names, not empty
    Ports,          \* port numbers
    Endpoints,      \* the endpoints that are appended
    Names,          \* user names, passwords and tokens, as their bytes
    Durations,      \* values of the two timeouts
    Hints,          \* values of concurrencyHint
    Cores,          \* what std::thread::hardware_concurrency() may return
    MaxCalls,       \* bound: the setters called on the builder
    MaxClients,     \* bound: the clients constructed
    NotSet          \* std::nullopt

ASSUME NumbersAssumption == Durations \cup Hints \cup Cores \subseteq Nat
ASSUME NamesAssumption == Names \subseteq Seq(0 .. 255)
ASSUME BoundsAssumption == MaxCalls \in Nat /\ MaxClients \in Nat

Endpoint == [host : Hosts \cup {""}, port : Ports]
ASSUME EndpointsAssumption == Endpoints \subseteq Endpoint
Credential == [username : Names, password : Names]
Token == [token : Names]
PEM == {"", "good", "bad"}
TLSVersions == {"sslv2", "tlsv12", "tlsv13"}

TLSConfig ==
    [skipVerifyPeer : BOOLEAN, certificates : PEM, rootCAs : PEM, version : TLSVersions]
DefaultTLSConfig ==
    [skipVerifyPeer |-> FALSE, certificates |-> "", rootCAs |-> "", version |-> "tlsv12"]

ClientConfig ==
    [addresses : Seq(Endpoint), authConfig : Credential \cup Token \cup {NotSet},
     batchConfig : Durations \cup {NotSet}, timeout : Nat, connectTimeout : Nat,
     gzipEnabled : BOOLEAN, concurrencyHint : Nat,
     tlsConfig : TLSConfig \cup {NotSet}, tlsEnabled : BOOLEAN]
ASSUME NotSetAssumption ==
    NotSet \notin Nat \cup BOOLEAN \cup PEM \cup TLSVersions \cup Credential \cup Token \cup TLSConfig

DefaultConfig ==
    [addresses |-> <<>>, authConfig |-> NotSet, batchConfig |-> NotSet,
     timeout |-> 30, connectTimeout |-> 30, gzipEnabled |-> FALSE,
     concurrencyHint |-> 0, tlsConfig |-> NotSet, tlsEnabled |-> FALSE]

VARIABLES
    conf_,          \* the configuration in the builder
    clients,        \* what came of the constructions, in their order
    request,        \* the request sent last, as <<client, fields>>
    asked,          \* asked[s]: what setter s was last given (history)
    calls           \* the number of calls of setters

vars == <<conf_, clients, request, asked, calls>>

Setters ==
    {"authConfig", "batchConfig", "timeout", "connectTimeout", "gzipEnabled", "concurrencyHint",
     "skipVerifyPeer", "certificates", "rootCAs", "version", "tlsEnabled"}

Init ==
    /\ conf_ = DefaultConfig
    /\ clients = <<>>
    /\ request = NotSet
    /\ asked = [s \in Setters \cup {"addresses"} |-> IF s = "addresses" THEN <<>> ELSE NotSet]
    /\ calls = 0

-----------------------------------------------------------------------------
(* The builder. Every setter returns the builder and changes conf_ only.   *)
(* After the last client there is nobody to see what it does.              *)

Set(setter, value, config) ==
    /\ calls < MaxCalls /\ Len(clients) < MaxClients
    /\ calls' = calls + 1
    /\ conf_' = config
    /\ asked' = [asked EXCEPT ![setter] = value]
    /\ UNCHANGED <<clients, request>>

AppendAddress(address) ==
    Set("addresses", asked["addresses"] \o <<address>>,
        [conf_ EXCEPT !.addresses = Append(@, address)])

AppendAddresses(addresses) ==
    Set("addresses", asked["addresses"] \o addresses,
        [conf_ EXCEPT !.addresses = @ \o addresses])

AuthCredential(cred) == Set("authConfig", cred, [conf_ EXCEPT !.authConfig = cred])

AuthToken(token) == Set("authConfig", token, [conf_ EXCEPT !.authConfig = token])

BatchConfig(interval) == Set("batchConfig", interval, [conf_ EXCEPT !.batchConfig = interval])

ReadWriteTimeout(timeout) == Set("timeout", timeout, [conf_ EXCEPT !.timeout = timeout])

ConnectTimeout(timeout) ==
    Set("connectTimeout", timeout, [conf_ EXCEPT !.connectTimeout = timeout])

EnableGzip(enabled) == Set("gzipEnabled", enabled, [conf_ EXCEPT !.gzipEnabled = enabled])

ConcurrencyHint(hint) == Set("concurrencyHint", hint, [conf_ EXCEPT !.concurrencyHint = hint])

(* The TLS configuration is made by the first of its four setters that is  *)
(* called. Before it, one that is made anew by each.                       *)
PrepareTLSConfigAnew == DefaultTLSConfig
PrepareTLSConfig == IF conf_.tlsConfig = NotSet THEN DefaultTLSConfig ELSE conf_.tlsConfig

SkipVerifyPeer(skipped) ==
    Set("skipVerifyPeer", skipped,
        [conf_ EXCEPT !.tlsConfig = [PrepareTLSConfig EXCEPT !.skipVerifyPeer = skipped]])

ClientCertificates(certificates) ==
    Set("certificates", certificates,
        [conf_ EXCEPT !.tlsConfig = [PrepareTLSConfig EXCEPT !.certificates = certificates]])

RootCAs(rootCAs) ==
    Set("rootCAs", rootCAs,
        [conf_ EXCEPT !.tlsConfig = [PrepareTLSConfig EXCEPT !.rootCAs = rootCAs]])

TLSVersion(version) ==
    Set("version", version,
        [conf_ EXCEPT !.tlsConfig = [PrepareTLSConfig EXCEPT !.version = version]])

EnableTLS(enabled) == Set("tlsEnabled", enabled, [conf_ EXCEPT !.tlsEnabled = enabled])

-----------------------------------------------------------------------------
(* The construction of a ClientImpl: the context, the HTTP client, the     *)
(* load balancer. Each may throw, and then there is no client.             *)

(* A hint from 1 to four times the cores is taken; otherwise there are as  *)
(* many threads as cores, or one if that number is not known. Before it, a *)
(* choice that forgets that it may not be known.                           *)
ChooseThreadsNumKnown(hint, cores) == IF hint \in 1 .. 4 * cores THEN hint ELSE cores

ChooseThreadsNum(hint, cores) ==
    IF hint \in 1 .. 4 * cores THEN hint
    ELSE IF cores = 0 THEN 1 ELSE cores

TLSOf(config) == IF config.tlsConfig = NotSet THEN DefaultTLSConfig ELSE config.tlsConfig

(* What the TLS context refuses: OpenSSL has no SSLv2, and that exception  *)
(* leaves a member initializer and is not converted; bad certificates are. *)
TLSErrors(config) ==
    IF ~config.tlsEnabled THEN {}
    ELSE IF TLSOf(config).version = "sslv2" THEN {"foreign"}
    ELSE IF "bad" \in {TLSOf(config).rootCAs, TLSOf(config).certificates} THEN {"System"}
    ELSE {}

AuthErrors(config) == IF config.authConfig \in Token THEN {"NotImplemented"} ELSE {}

(* ConstructServers; before the test for duplicates, one that compares     *)
(* neighbours only.                                                        *)
DuplicateNext(endpoints) ==
    \E i \in 1 .. Len(endpoints) - 1 : endpoints[i] = endpoints[i + 1]
Duplicate(endpoints) ==
    \E i, j \in DOMAIN endpoints : i # j /\ endpoints[i] = endpoints[j]

ServerErrors(endpoints) ==
    IF \/ endpoints = <<>>
       \/ \E i \in DOMAIN endpoints : endpoints[i].host = ""
       \/ Duplicate(endpoints)
    THEN {"InvalidArgument"} ELSE {}

(* The errors in the order in which their tests are made; the first counts. *)
ConstructionErrors(config) ==
    IF TLSErrors(config) # {} THEN TLSErrors(config)
    ELSE IF AuthErrors(config) # {} THEN AuthErrors(config)
    ELSE ServerErrors(config.addresses)

(* The Authorization field, a default header of every request.             *)
DefaultHeaders(config) ==
    [field \in IF config.authConfig \in Credential THEN {"Authorization"} ELSE {} |->
        BasicAuthorization(config.authConfig.username, config.authConfig.password)]

ConstructionFails ==
    /\ Len(clients) < MaxClients
    /\ \E error \in ConstructionErrors(conf_) :
        clients' = Append(clients, [asked |-> asked, error |-> error])
    /\ UNCHANGED <<conf_, request, asked, calls>>

Construct(cores) ==
    /\ Len(clients) < MaxClients
    /\ ConstructionErrors(conf_) = {}
    /\ clients' = Append(clients,
            [asked |-> asked, error |-> "none", cores |-> cores,
             threads |-> ChooseThreadsNum(conf_.concurrencyHint, cores),
             tls |-> IF conf_.tlsEnabled THEN TLSOf(conf_) ELSE NotSet,
             connectTimeout |-> conf_.connectTimeout,
             readWriteTimeout |-> conf_.timeout,
             headers |-> DefaultHeaders(conf_),
             servers |-> conf_.addresses])
    /\ UNCHANGED <<conf_, request, asked, calls>>

-----------------------------------------------------------------------------
(* BuildRequest: the default headers, then those every request has. Before *)
(* it, one that gives the default headers to requests with a body only.    *)
Fields(headers, host) ==
    [field \in {"Host", "User-Agent"} \cup DOMAIN headers |->
        CASE field = "Host" -> host
          [] field = "User-Agent" -> "opengemini-client-cxx"
          [] OTHER -> headers[field]]

BuildRequestPost(headers, host, method) ==
    Fields(IF method = "post" THEN headers ELSE <<>>, host)

BuildRequest(headers, host, method) == Fields(headers, host)

SendRequest(i, endpoint, method) ==
    /\ clients[i].error = "none"
    /\ endpoint \in Range(clients[i].servers)
    /\ request' = <<i, BuildRequest(clients[i].headers, endpoint.host, method)>>
    /\ UNCHANGED <<conf_, clients, asked, calls>>

-----------------------------------------------------------------------------
BuilderStep ==
    \/ \E e \in Endpoints : AppendAddress(e)
    \/ \E e, f \in Endpoints : AppendAddresses(<<e, f>>)
    \/ \E c \in Credential : AuthCredential(c)
    \/ \E t \in Token : AuthToken(t)
    \/ \E d \in Durations : BatchConfig(d) \/ ReadWriteTimeout(d) \/ ConnectTimeout(d)
    \/ \E h \in Hints : ConcurrencyHint(h)
    \/ \E b \in BOOLEAN : EnableGzip(b) \/ SkipVerifyPeer(b) \/ EnableTLS(b)
    \/ \E p \in PEM : ClientCertificates(p) \/ RootCAs(p)
    \/ \E v \in TLSVersions : TLSVersion(v)

Next ==
    \/ BuilderStep
    \/ ConstructionFails
    \/ \E n \in Cores : Construct(n)
    \/ \E i \in DOMAIN clients, e \in Endpoints, m \in {"get", "post"} : SendRequest(i, e, m)

Spec == Init /\ [][Next]_vars

-----------------------------------------------------------------------------
(* What the user of a client asked for: the value given last, or a default.*)
Asked(client, setter, default) ==
    IF client.asked[setter] = NotSet THEN default ELSE client.asked[setter]

AskedTLS(client) ==
    [skipVerifyPeer |-> Asked(client, "skipVerifyPeer", FALSE),
     certificates |-> Asked(client, "certificates", ""),
     rootCAs |-> Asked(client, "rootCAs", ""),
     version |-> Asked(client, "version", "tlsv12")]

Constructed == {i \in DOMAIN clients : clients[i].error = "none"}

(* The calls of setters commute except with themselves: a client has, of   *)
(* every setting, the last value given before its construction, whichever  *)
(* other setters came in between, and TLS only when it is enabled.         *)
ClientMatchesCalls ==
    \A i \in Constructed :
        LET client == clients[i] IN
        /\ client.servers = client.asked["addresses"]
        /\ client.connectTimeout = Asked(client, "connectTimeout", 30)
        /\ client.readWriteTimeout = Asked(client, "timeout", 30)
        /\ client.tls = IF Asked(client, "tlsEnabled", FALSE) THEN AskedTLS(client) ELSE NotSet

(* The list of servers is what the load balancer needs of it, and what     *)
(* ClientConfig.hpp demands: not empty, without duplicates. A construction *)
(* fails only for a reason the user gave.                                  *)
ServersAreDistinct ==
    \A i \in DOMAIN clients :
        LET client   == clients[i]
            servers  == client.asked["addresses"]
            distinct == Cardinality({e \in Range(servers) : e.host # ""})
        IN  CASE client.error = "none" -> distinct = Len(client.servers) /\ distinct > 0
              [] client.error = "NotImplemented" -> Asked(client, "authConfig", NotSet) \in Token
              [] client.error = "InvalidArgument" -> distinct # Len(servers) \/ servers = <<>>
              [] OTHER -> Asked(client, "tlsEnabled", FALSE) /\ AskedTLS(client) # DefaultTLSConfig

(* A client has a thread to run on, whatever the hint and even if the      *)
(* number of cores is not known; and it has the number that was asked for  *)
(* where that is no more than four to a core.                              *)
ThreadsAreEnough ==
    \A i \in Constructed :
        LET hint == Asked(clients[i], "concurrencyHint", 0)
            most == 4 * clients[i].cores
        IN  /\ clients[i].threads \in 1 .. IF most = 0 THEN 1 ELSE most
            /\ hint # 0 /\ hint <= most => clients[i].threads = hint

(* Every request of a client, with or without a body, carries the          *)
(* credentials that were given last before the client was constructed, and *)
(* none if there were none.                                                *)
RequestsCarryCredentials ==
    request # NotSet =>
        ("Authorization" \in DOMAIN request[2]
            <=> Asked(clients[request[1]], "authConfig", NotSet) \in Credential)

(* A server can read the Authorization field of every request, and takes   *)
(* the user for who he is, whatever the lengths and the bytes of his name  *)
(* and his password are, unless there is a colon in the name.              *)
CredentialsArrive ==
    request # NotSet /\ "Authorization" \in DOMAIN request[2] =>
        LET field == request[2]["Authorization"]
            cred  == clients[request[1]].asked["authConfig"]
        IN  /\ WellFormed(field)
            /\ Colon \notin Range(cred.username) => Split(Decode(field)) = <<cred.username, cred.password>>
=============================================================================
