---------------------- MODULE ClientConfigurationProofs ----------------------
(***************************************************************************)
(* Proofs about ClientConfiguration, for every list of endpoints, every    *)
(* value of every setting, and any number of calls and clients.            *)
(***************************************************************************)
EXTENDS ClientConfiguration, SequenceLemmas

-----------------------------------------------------------------------------
(* The inductive invariant. What was asked for, the value given last or a  *)
(* default, is what the configuration says.                                *)
Given(given, setter, default) ==
    IF given[setter] = NotSet THEN default ELSE given[setter]

GivenTLS(given) ==
    [skipVerifyPeer |-> Given(given, "skipVerifyPeer", FALSE),
     certificates |-> Given(given, "certificates", ""),
     rootCAs |-> Given(given, "rootCAs", ""),
     version |-> Given(given, "version", "tlsv12")]

Configured(config, given) ==
    /\ config.addresses = given["addresses"]
    /\ config.authConfig = Given(given, "authConfig", NotSet)
    /\ config.timeout = Given(given, "timeout", 30)
    /\ config.connectTimeout = Given(given, "connectTimeout", 30)
    /\ config.concurrencyHint = Given(given, "concurrencyHint", 0)
    /\ config.tlsEnabled = Given(given, "tlsEnabled", FALSE)
    /\ TLSOf(config) = GivenTLS(given)

(* What is true of each client, or of what a failed construction left.     *)
MatchesCalls(client) ==
    /\ client.servers = client.asked["addresses"]
    /\ client.connectTimeout = Asked(client, "connectTimeout", 30)
    /\ client.readWriteTimeout = Asked(client, "timeout", 30)
    /\ client.tls = IF Asked(client, "tlsEnabled", FALSE) THEN AskedTLS(client) ELSE NotSet

HasDistinctServers(client) ==
    LET servers  == client.asked["addresses"]
        distinct == Cardinality({e \in Range(servers) : e.host # ""})
    IN  CASE client.error = "none" -> distinct = Len(client.servers) /\ distinct > 0
          [] client.error = "NotImplemented" -> Asked(client, "authConfig", NotSet) \in Token
          [] client.error = "InvalidArgument" -> distinct # Len(servers) \/ servers = <<>>
          [] OTHER -> Asked(client, "tlsEnabled", FALSE) /\ AskedTLS(client) # DefaultTLSConfig

HasThreads(client) ==
    LET hint == Asked(client, "concurrencyHint", 0)
        most == 4 * client.cores
    IN  /\ client.threads \in 1 .. IF most = 0 THEN 1 ELSE most
        /\ hint # 0 /\ hint <= most => client.threads = hint

Authorization(cred) == BasicAuthorization(cred.username, cred.password)

HasCredentials(client) ==
    LET cred == Asked(client, "authConfig", NotSet)
    IN  /\ DOMAIN client.headers = IF cred \in Credential THEN {"Authorization"} ELSE {}
        /\ cred \in Credential => client.headers["Authorization"] = Authorization(cred)

Good(client) ==
    /\ HasDistinctServers(client)
    /\ client.error = "none" => MatchesCalls(client) /\ HasThreads(client) /\ HasCredentials(client)

CarriesCredentials ==
    request # NotSet =>
        LET cred == Asked(clients[request[1]], "authConfig", NotSet)
        IN  /\ request[1] \in DOMAIN clients
            /\ "Authorization" \in DOMAIN request[2] <=> cred \in Credential
            /\ cred \in Credential => request[2]["Authorization"] = Authorization(cred)

IInv ==
    /\ conf_ \in ClientConfig
    /\ asked = [s \in Setters \cup {"addresses"} |-> asked[s]]
    /\ Configured(conf_, asked)
    /\ clients \in Seq(Range(clients))
    /\ \A i \in DOMAIN clients : Good(clients[i])
    /\ CarriesCredentials

-----------------------------------------------------------------------------
(* How many endpoints are different.                                       *)
LEMMA InjectiveCount ==
    ASSUME NEW S, NEW q \in Seq(S)
    PROVE  /\ IsFiniteSet(Range(q))
           /\ Cardinality(Range(q)) \in Nat /\ Cardinality(Range(q)) <= Len(q)
           /\ Cardinality(Range(q)) = Len(q)
                <=> \A i, j \in DOMAIN q : q[i] = q[j] => i = j
<1>1. Len(q) \in Nat /\ DOMAIN q = 1 .. Len(q) /\ q = [i \in 1 .. Len(q) |-> q[i]]
  OBVIOUS
<1>2. IsFiniteSet(1 .. Len(q)) /\ Cardinality(1 .. Len(q)) = Len(q)
  <2>1. PICK n \in Nat : n = Len(q)
    BY <1>1
  <2>2. IsFiniteSet(1 .. n) /\ Cardinality(1 .. n) = IF 1 > n THEN 0 ELSE n - 1 + 1
    BY FS_Interval
  <2> QED BY <2>1, <2>2
<1>3. q \in Surjection(1 .. Len(q), Range(q))
  BY <1>1 DEF Surjection, Range
<1>4. /\ IsFiniteSet(Range(q)) /\ Cardinality(Range(q)) <= Cardinality(1 .. Len(q))
      /\ Cardinality(Range(q)) = Cardinality(1 .. Len(q))
            <=> q \in Injection(1 .. Len(q), Range(q))
  BY <1>2, <1>3, FS_Surjection
<1>5. q \in Injection(1 .. Len(q), Range(q)) <=> \A i, j \in DOMAIN q : q[i] = q[j] => i = j
  BY <1>1, <1>3 DEF Injection, Surjection, IsInjective
<1>6. Cardinality(Range(q)) \in Nat
  BY <1>4, FS_CardinalityType
<1> QED BY <1>2, <1>4, <1>5, <1>6

(* The tests of ConstructServers find exactly the lists in which an        *)
(* endpoint is missing or counts twice.                                    *)
LEMMA ServersCount ==
    ASSUME NEW q \in Seq(Endpoint)
    PROVE  LET distinct == Cardinality({e \in Range(q) : e.host # ""})
           IN  /\ ServerErrors(q) = {} => distinct = Len(q) /\ distinct > 0
               /\ ServerErrors(q) # {} => distinct # Len(q) \/ q = <<>>
<1> DEFINE named == {e \in Range(q) : e.host # ""}
<1>1. Len(q) \in Nat /\ DOMAIN q = 1 .. Len(q) /\ Range(q) = {q[i] : i \in 1 .. Len(q)}
  BY DEF Range
<1>2. /\ IsFiniteSet(Range(q)) /\ Cardinality(Range(q)) \in Nat
      /\ Cardinality(Range(q)) <= Len(q)
      /\ Cardinality(Range(q)) = Len(q) <=> \A i, j \in DOMAIN q : q[i] = q[j] => i = j
  BY InjectiveCount
<1>3. /\ IsFiniteSet(named) /\ Cardinality(named) \in Nat
      /\ Cardinality(named) <= Cardinality(Range(q))
      /\ Cardinality(named) = Cardinality(Range(q)) => named = Range(q)
  BY <1>2, FS_Subset, FS_CardinalityType
<1>4. Duplicate(q) <=> ~\A i, j \in DOMAIN q : q[i] = q[j] => i = j
  BY DEF Duplicate
<1>5. (\E i \in DOMAIN q : q[i].host = "") <=> named # Range(q)
  BY <1>1
<1>6. ServerErrors(q) = {} <=>
        ~(q = <<>> \/ (\E i \in DOMAIN q : q[i].host = "") \/ Duplicate(q))
  BY DEF ServerErrors
<1> HIDE DEF named
<1>7. q # <<>> => Len(q) > 0
  OBVIOUS
<1>8. /\ ServerErrors(q) = {} => Cardinality(named) = Len(q) /\ Cardinality(named) > 0
      /\ ServerErrors(q) # {} => Cardinality(named) # Len(q) \/ q = <<>>
  <2>1. ASSUME ServerErrors(q) = {}
        PROVE  Cardinality(named) = Len(q) /\ Cardinality(named) > 0
    <3>1. named = Range(q) /\ Cardinality(Range(q)) = Len(q)
      BY <1>2, <1>4, <1>5, <1>6, <2>1
    <3> QED BY <1>1, <1>6, <1>7, <2>1, <3>1
  <2>2. ASSUME ServerErrors(q) # {}, q # <<>>
        PROVE  Cardinality(named) # Len(q)
    <3>1. CASE Duplicate(q)
      <4>1. Cardinality(Range(q)) # Len(q)
        BY <1>2, <1>4, <3>1
      <4> QED BY <1>1, <1>2, <1>3, <4>1
    <3>2. CASE \E i \in DOMAIN q : q[i].host = ""
      <4>1. Cardinality(named) # Cardinality(Range(q))
        BY <1>3, <1>5, <3>2
      <4> QED BY <1>1, <1>2, <1>3, <4>1
    <3> QED BY <1>6, <2>2, <3>1, <3>2
  <2> QED BY <2>1, <2>2
<1> QED BY <1>8 DEF named

-----------------------------------------------------------------------------
(* The builder.                                                            *)

LEMMA SetKeeps ==
    ASSUME IInv, NEW setter \in Setters \cup {"addresses"}, NEW value,
           NEW config \in ClientConfig,
           Configured(config, [asked EXCEPT ![setter] = value]),
           Set(setter, value, config)
    PROVE  IInv'
<1>1. /\ conf_' = config /\ asked' = [asked EXCEPT ![setter] = value]
      /\ UNCHANGED <<clients, request>>
  BY DEF Set
<1>2. asked' = [s \in Setters \cup {"addresses"} |-> asked'[s]]
  BY <1>1 DEF IInv
<1>3. CarriesCredentials'
  BY <1>1 DEF IInv, CarriesCredentials, Asked
<1>4. \A i \in DOMAIN clients' : Good(clients'[i])
  BY <1>1 DEF IInv
<1> QED BY <1>1, <1>2, <1>3, <1>4 DEF IInv

(* The lists of endpoints.                                                 *)
LEMMA AddressesKeep ==
    ASSUME IInv, NEW e \in Endpoint, NEW f \in Endpoint,
           AppendAddress(e) \/ AppendAddresses(<<e, f>>)
    PROVE  IInv'
<1> DEFINE q == conf_.addresses
<1>1. q \in Seq(Endpoint) /\ q = asked["addresses"] /\ conf_ \in ClientConfig
  BY DEF IInv, Configured, ClientConfig
<1>2. /\ Append(q, e) = q \o <<e>> /\ q \o <<e>> \in Seq(Endpoint)
      /\ q \o <<e, f>> \in Seq(Endpoint)
  <2>1. <<e>> \in Seq(Endpoint) /\ <<e, f>> \in Seq(Endpoint)
    OBVIOUS
  <2> QED BY <1>1, <2>1
<1>3. ASSUME NEW r \in Seq(Endpoint), Set("addresses", r, [conf_ EXCEPT !.addresses = r])
      PROVE  IInv'
  <2> DEFINE config == [conf_ EXCEPT !.addresses = r]
             given == [asked EXCEPT !["addresses"] = r]
  <2>1. config \in ClientConfig
    BY <1>1 DEF ClientConfig
  <2>2. /\ given["addresses"] = r
        /\ \A s \in Setters : given[s] = asked[s]
    BY DEF IInv, Setters
  <2>3. Configured(config, given)
    <3>1. /\ config.addresses = r /\ config.authConfig = conf_.authConfig
          /\ config.timeout = conf_.timeout /\ config.connectTimeout = conf_.connectTimeout
          /\ config.concurrencyHint = conf_.concurrencyHint
          /\ config.tlsEnabled = conf_.tlsEnabled /\ config.tlsConfig = conf_.tlsConfig
      BY <1>1 DEF ClientConfig
    <3> HIDE DEF config, given
    <3> QED BY ZenonT(60), <2>2, <3>1 DEF IInv, Configured, Given, GivenTLS, TLSOf, Setters
  <2> QED BY <1>3, <2>1, <2>3, SetKeeps
<1> QED BY <1>1, <1>2, <1>3 DEF AppendAddress, AppendAddresses

(* The settings outside the TLS configuration.                             *)
LEMMA SettingKeeps ==
    ASSUME IInv, NEW setter, NEW value,
           \/ setter = "authConfig" /\ value \in Credential \cup Token
           \/ setter \in {"batchConfig", "timeout", "connectTimeout"} /\ value \in Durations
           \/ setter = "concurrencyHint" /\ value \in Hints
           \/ setter \in {"gzipEnabled", "tlsEnabled"} /\ value \in BOOLEAN,
           Set(setter, value, [conf_ EXCEPT ![setter] = value])
    PROVE  IInv'
<1> DEFINE config == [conf_ EXCEPT ![setter] = value]
           given == [asked EXCEPT ![setter] = value]
<1>1. setter \in Setters /\ value # NotSet
  BY NumbersAssumption, NotSetAssumption DEF Setters
<1>2. conf_ \in ClientConfig
  BY DEF IInv
<1>3. config \in ClientConfig
  BY <1>2, NumbersAssumption DEF ClientConfig
<1>4. given[setter] = value /\ \A s \in Setters \cup {"addresses"} : s # setter => given[s] = asked[s]
  BY <1>1 DEF IInv
<1>5. /\ config.addresses = conf_.addresses /\ config.tlsConfig = conf_.tlsConfig
      /\ \A s \in {"authConfig", "timeout", "connectTimeout", "concurrencyHint", "tlsEnabled"} :
            config[s] = IF s = setter THEN value ELSE conf_[s]
  BY <1>1, <1>2 DEF ClientConfig
<1> HIDE DEF config, given
<1>6. Configured(config, given)
  <2>1. setter \notin {"addresses", "skipVerifyPeer", "certificates", "rootCAs", "version"}
    OBVIOUS
  <2>2. given["addresses"] = asked["addresses"] /\ GivenTLS(given) = GivenTLS(asked)
    BY <1>4, <2>1 DEF GivenTLS, Given, Setters
  <2>3. config.addresses = given["addresses"] /\ TLSOf(config) = GivenTLS(given)
    BY <1>5, <2>2 DEF IInv, Configured, TLSOf
  <2>4. ASSUME NEW s \in {"authConfig", "timeout", "connectTimeout", "concurrencyHint",
                         "tlsEnabled"},
               NEW default, conf_[s] = Given(asked, s, default)
        PROVE  config[s] = Given(given, s, default)
    <3>1. s \in Setters
      BY DEF Setters
    <3> QED BY <1>1, <1>4, <1>5, <2>4, <3>1 DEF Given
  <2> QED BY <2>3, <2>4 DEF IInv, Configured
<1> QED BY <1>1, <1>3, <1>6, SetKeeps DEF config, given

(* The TLS configuration: the others of its settings stay.                 *)
TLSSetters == {"skipVerifyPeer", "certificates", "rootCAs", "version"}

LEMMA TLSKeeps ==
    ASSUME IInv, NEW setter \in TLSSetters, NEW value, value # NotSet,
           [PrepareTLSConfig EXCEPT ![setter] = value] \in TLSConfig,
           Set(setter, value,
               [conf_ EXCEPT !.tlsConfig = [PrepareTLSConfig EXCEPT ![setter] = value]])
    PROVE  IInv'
<1> DEFINE tls == [PrepareTLSConfig EXCEPT ![setter] = value]
           config == [conf_ EXCEPT !.tlsConfig = tls]
           given == [asked EXCEPT ![setter] = value]
<1>1. setter \in Setters /\ PrepareTLSConfig = GivenTLS(asked)
  BY DEF Setters, TLSSetters, PrepareTLSConfig, IInv, Configured, TLSOf
<1>2. conf_ \in ClientConfig
  BY DEF IInv
<1>3. config \in ClientConfig
  BY <1>2 DEF ClientConfig
<1>4. given[setter] = value /\ \A s \in Setters \cup {"addresses"} : s # setter => given[s] = asked[s]
  BY <1>1 DEF IInv
<1>5. tls = GivenTLS(given)
  <2>1. \A s \in TLSSetters : s \in Setters
    BY DEF Setters, TLSSetters
  <2>2. tls = [GivenTLS(asked) EXCEPT ![setter] = value]
    BY <1>1
  <2> HIDE DEF given, tls
  <2> QED BY <1>4, <2>1, <2>2 DEF GivenTLS, Given, TLSSetters
<1>6. TLSOf(config) = tls
  <2>1. config.tlsConfig = tls
    BY <1>2 DEF ClientConfig
  <2>2. tls # NotSet
    BY NotSetAssumption
  <2> QED BY <2>1, <2>2 DEF TLSOf
<1>7. \A s \in {"addresses", "authConfig", "timeout", "connectTimeout", "concurrencyHint",
               "tlsEnabled"} :
          config[s] = conf_[s] /\ given[s] = asked[s]
  <2>1. \A s \in {"addresses", "authConfig", "timeout", "connectTimeout", "concurrencyHint",
                  "tlsEnabled"} :
            s \in Setters \cup {"addresses"} /\ s \notin TLSSetters
    BY DEF Setters, TLSSetters
  <2> QED BY <1>2, <1>4, <2>1 DEF ClientConfig
<1> HIDE DEF config, given, tls
<1>8. Configured(config, given)
  BY <1>5, <1>6, <1>7 DEF IInv, Configured, Given
<1> QED BY <1>1, <1>3, <1>8, SetKeeps DEF config, given, tls

LEMMA BuilderKeeps ==
    ASSUME IInv, BuilderStep
    PROVE  IInv'
<1>1. ASSUME NEW e \in Endpoints, NEW f \in Endpoints,
             AppendAddress(e) \/ AppendAddresses(<<e, f>>)
      PROVE  IInv'
  <2>1. e \in Endpoint /\ f \in Endpoint
    BY EndpointsAssumption
  <2> QED BY <1>1, <2>1, AddressesKeep
<1>2. ASSUME NEW value \in Credential \cup Token, AuthCredential(value) \/ AuthToken(value)
      PROVE  IInv'
  BY <1>2, SettingKeeps DEF AuthCredential, AuthToken
<1>3. ASSUME NEW d \in Durations, BatchConfig(d) \/ ReadWriteTimeout(d) \/ ConnectTimeout(d)
      PROVE  IInv'
  BY <1>3, SettingKeeps DEF BatchConfig, ReadWriteTimeout, ConnectTimeout
<1>4. ASSUME NEW h \in Hints, ConcurrencyHint(h)
      PROVE  IInv'
  BY <1>4, SettingKeeps DEF ConcurrencyHint
<1>5. ASSUME NEW b \in BOOLEAN, EnableGzip(b) \/ EnableTLS(b)
      PROVE  IInv'
  BY <1>5, SettingKeeps DEF EnableGzip, EnableTLS
<1>6. PrepareTLSConfig \in TLSConfig
  BY DEF PrepareTLSConfig, IInv, ClientConfig, TLSConfig, DefaultTLSConfig, PEM, TLSVersions
<1>7. ASSUME NEW b \in BOOLEAN, SkipVerifyPeer(b)
      PROVE  IInv'
  <2>1. b # NotSet /\ [PrepareTLSConfig EXCEPT !.skipVerifyPeer = b] \in TLSConfig
    BY <1>6, NotSetAssumption DEF TLSConfig
  <2> QED BY <1>7, <2>1, TLSKeeps DEF SkipVerifyPeer, TLSSetters
<1>8. ASSUME NEW p \in PEM, ClientCertificates(p) \/ RootCAs(p)
      PROVE  IInv'
  <2>1. /\ p # NotSet
        /\ [PrepareTLSConfig EXCEPT !.certificates = p] \in TLSConfig
        /\ [PrepareTLSConfig EXCEPT !.rootCAs = p] \in TLSConfig
    BY <1>6, NotSetAssumption DEF TLSConfig
  <2> QED BY <1>8, <2>1, TLSKeeps DEF ClientCertificates, RootCAs, TLSSetters
<1>9. ASSUME NEW v \in TLSVersions, TLSVersion(v)
      PROVE  IInv'
  <2>1. v # NotSet /\ [PrepareTLSConfig EXCEPT !.version = v] \in TLSConfig
    BY <1>6, NotSetAssumption DEF TLSConfig
  <2> QED BY <1>9, <2>1, TLSKeeps DEF TLSVersion, TLSSetters
<1> QED BY <1>1, <1>2, <1>3, <1>4, <1>5, <1>7, <1>8, <1>9 DEF BuilderStep

-----------------------------------------------------------------------------
(* The construction of a client.                                           *)

LEMMA ClientAppended ==
    ASSUME IInv, NEW client, Good(client), clients' = Append(clients, client),
           UNCHANGED <<conf_, request, asked>>
    PROVE  IInv'
<1>1. /\ clients' \in Seq(Range(clients'))
      /\ DOMAIN clients' = DOMAIN clients \cup {Len(clients) + 1}
      /\ clients'[Len(clients) + 1] = client
      /\ \A i \in DOMAIN clients : clients'[i] = clients[i]
  BY AppendAny DEF IInv
<1>2. \A i \in DOMAIN clients' : Good(clients'[i])
  BY <1>1 DEF IInv
<1>3. CarriesCredentials'
  BY <1>1 DEF IInv, CarriesCredentials, Asked
<1> QED BY <1>1, <1>2, <1>3 DEF IInv

LEMMA FailureKeeps ==
    ASSUME IInv, ConstructionFails
    PROVE  IInv'
<1>1. PICK error \in ConstructionErrors(conf_) :
          clients' = Append(clients, [asked |-> asked, error |-> error])
  BY DEF ConstructionFails
<1> DEFINE client == [asked |-> asked, error |-> error]
<1>2. client.error = error /\ client.asked = asked
  OBVIOUS
<1>3. Configured(conf_, asked) /\ conf_ \in ClientConfig
  BY DEF IInv
<1>4. CASE error \in TLSErrors(conf_)
  <2>1. /\ conf_.tlsEnabled /\ error \in {"foreign", "System"}
        /\ \/ TLSOf(conf_).version = "sslv2"
           \/ "bad" \in {TLSOf(conf_).rootCAs, TLSOf(conf_).certificates}
    BY <1>4 DEF TLSErrors
  <2>2. TLSOf(conf_) # DefaultTLSConfig
    <3>1. /\ DefaultTLSConfig.version = "tlsv12"
          /\ DefaultTLSConfig.rootCAs = "" /\ DefaultTLSConfig.certificates = ""
      BY DEF DefaultTLSConfig
    <3> QED BY <2>1, <3>1
  <2>3. AskedTLS(client) = TLSOf(conf_) /\ Asked(client, "tlsEnabled", FALSE) = conf_.tlsEnabled
    BY <1>2, <1>3 DEF AskedTLS, GivenTLS, Asked, Given, Configured
  <2> HIDE DEF client
  <2>4. HasDistinctServers(client)
    BY <1>2, <2>1, <2>2, <2>3 DEF HasDistinctServers
  <2>5. Good(client)
    BY <1>2, <2>1, <2>4 DEF Good
  <2> QED BY <1>1, <2>5, ClientAppended DEF ConstructionFails, client
<1>5. CASE error \in AuthErrors(conf_)
  <2>1. error = "NotImplemented" /\ conf_.authConfig \in Token
    BY <1>5 DEF AuthErrors
  <2>2. Asked(client, "authConfig", NotSet) = conf_.authConfig
    BY <1>2, <1>3 DEF Asked, Given, Configured
  <2> HIDE DEF client
  <2>3. HasDistinctServers(client)
    BY <1>2, <2>1, <2>2 DEF HasDistinctServers
  <2>4. Good(client)
    BY <1>2, <2>1, <2>3 DEF Good
  <2> QED BY <1>1, <2>4, ClientAppended DEF ConstructionFails, client
<1>6. CASE error \in ServerErrors(conf_.addresses)
  <2> DEFINE servers == asked["addresses"]
             distinct == Cardinality({e \in Range(servers) : e.host # ""})
  <2>1. error = "InvalidArgument" /\ servers \in Seq(Endpoint) /\ ServerErrors(servers) # {}
    BY <1>3, <1>6 DEF ServerErrors, Configured, ClientConfig
  <2>2. distinct # Len(servers) \/ servers = <<>>
    BY <2>1, ServersCount
  <2> HIDE DEF client
  <2>3. HasDistinctServers(client)
    BY <1>2, <2>1, <2>2 DEF HasDistinctServers
  <2>4. Good(client)
    BY <1>2, <2>1, <2>3 DEF Good
  <2> QED BY <1>1, <2>4, ClientAppended DEF ConstructionFails, client
<1> QED BY <1>1, <1>4, <1>5, <1>6 DEF ConstructionErrors

LEMMA ConstructKeeps ==
    ASSUME IInv, NEW cores \in Cores, Construct(cores)
    PROVE  IInv'
<1> DEFINE client ==
        [asked |-> asked, error |-> "none", cores |-> cores,
         threads |-> ChooseThreadsNum(conf_.concurrencyHint, cores),
         tls |-> IF conf_.tlsEnabled THEN TLSOf(conf_) ELSE NotSet,
         connectTimeout |-> conf_.connectTimeout,
         readWriteTimeout |-> conf_.timeout,
         headers |-> DefaultHeaders(conf_),
         servers |-> conf_.addresses]
<1>1. clients' = Append(clients, client) /\ UNCHANGED <<conf_, request, asked>>
  BY DEF Construct
<1>2. /\ client.asked = asked /\ client.error = "none" /\ client.cores = cores
      /\ client.threads = ChooseThreadsNum(conf_.concurrencyHint, cores)
      /\ client.tls = IF conf_.tlsEnabled THEN TLSOf(conf_) ELSE NotSet
      /\ client.connectTimeout = conf_.connectTimeout
      /\ client.readWriteTimeout = conf_.timeout
      /\ client.headers = DefaultHeaders(conf_)
      /\ client.servers = conf_.addresses
  OBVIOUS
<1> HIDE DEF client
<1>3. Configured(conf_, asked) /\ conf_ \in ClientConfig
  BY DEF IInv
<1>4. MatchesCalls(client)
  <2>1. AskedTLS(client) = TLSOf(conf_)
    BY <1>2, <1>3 DEF AskedTLS, GivenTLS, Asked, Given, Configured
  <2>2. /\ Asked(client, "tlsEnabled", FALSE) = conf_.tlsEnabled
        /\ Asked(client, "connectTimeout", 30) = conf_.connectTimeout
        /\ Asked(client, "timeout", 30) = conf_.timeout
    BY <1>2, <1>3 DEF Asked, Given, Configured
  <2> QED BY <1>2, <1>3, <2>1, <2>2 DEF MatchesCalls, Configured
<1>5. HasDistinctServers(client)
  <2> DEFINE servers == asked["addresses"]
             distinct == Cardinality({e \in Range(servers) : e.host # ""})
  <2>1. servers \in Seq(Endpoint) /\ ServerErrors(servers) = {} /\ client.servers = servers
    BY <1>2, <1>3 DEF Construct, ConstructionErrors, Configured, ClientConfig
  <2>2. distinct = Len(servers) /\ distinct > 0
    BY <2>1, ServersCount
  <2> QED BY <1>2, <2>1, <2>2 DEF HasDistinctServers
<1>6. HasThreads(client)
  <2>1. /\ cores \in Nat /\ conf_.concurrencyHint \in Nat
        /\ Asked(client, "concurrencyHint", 0) = conf_.concurrencyHint
    BY <1>2, <1>3, NumbersAssumption DEF Asked, Given, Configured, ClientConfig
  <2> QED BY <1>2, <2>1 DEF HasThreads, ChooseThreadsNum
<1>7. HasCredentials(client)
  <2>1. Asked(client, "authConfig", NotSet) = conf_.authConfig
    BY <1>2, <1>3 DEF Asked, Given, Configured
  <2> QED BY <1>2, <2>1 DEF HasCredentials, DefaultHeaders, Authorization
<1>8. Good(client)
  BY <1>4, <1>5, <1>6, <1>7 DEF Good
<1> QED BY <1>1, <1>8, ClientAppended

LEMMA RequestKeeps ==
    ASSUME IInv, NEW i \in DOMAIN clients, NEW e \in Endpoints, NEW m \in {"get", "post"},
           SendRequest(i, e, m)
    PROVE  IInv'
<1> DEFINE headers == clients[i].headers
<1>1. /\ clients[i].error = "none" /\ UNCHANGED <<conf_, clients, asked>>
      /\ request' = <<i, Fields(headers, e.host)>>
  BY DEF SendRequest, BuildRequest
<1>2. HasCredentials(clients[i])
  BY <1>1 DEF IInv, Good
<1>3. DOMAIN Fields(headers, e.host) = {"Host", "User-Agent"} \cup DOMAIN headers
  BY DEF Fields
<1> DEFINE cred == Asked(clients[i], "authConfig", NotSet)
<1>4. /\ "Authorization" \in DOMAIN Fields(headers, e.host) <=> cred \in Credential
      /\ cred \in Credential => Fields(headers, e.host)["Authorization"] = Authorization(cred)
  <2>1. /\ DOMAIN headers = IF cred \in Credential THEN {"Authorization"} ELSE {}
        /\ cred \in Credential => headers["Authorization"] = Authorization(cred)
    BY <1>2 DEF HasCredentials
  <2> HIDE DEF cred, headers
  <2>2. "Authorization" \in DOMAIN headers =>
            Fields(headers, e.host)["Authorization"] = headers["Authorization"]
    BY DEF Fields
  <2> QED BY <1>3, <2>1, <2>2
<1> HIDE DEF headers
<1>5. CarriesCredentials'
  <2>1. request'[1] = i /\ request'[2] = Fields(headers, e.host) /\ clients' = clients
    BY <1>1
  <2> QED BY <1>4, <2>1 DEF CarriesCredentials, Asked
<1> QED BY <1>1, <1>5 DEF IInv

-----------------------------------------------------------------------------
LEMMA InitInductive == Init => IInv
<1> SUFFICES ASSUME Init
             PROVE  IInv
  OBVIOUS
<1>1. conf_ \in ClientConfig
  <2>1. <<>> \in Seq(Endpoint)
    OBVIOUS
  <2> QED BY <2>1 DEF Init, DefaultConfig, ClientConfig
<1>2. /\ asked = [s \in Setters \cup {"addresses"} |-> asked[s]]
      /\ asked["addresses"] = <<>> /\ \A s \in Setters : asked[s] = NotSet
  BY DEF Init, Setters
<1>3. Configured(conf_, asked)
  BY <1>2 DEF Init, DefaultConfig, DefaultTLSConfig, Configured, Given, GivenTLS, TLSOf, Setters
<1>4. clients \in Seq(Range(clients)) /\ DOMAIN clients = {}
  BY DEF Init
<1>5. CarriesCredentials
  BY DEF Init, CarriesCredentials
<1> QED BY <1>1, <1>2, <1>3, <1>4, <1>5 DEF IInv

LEMMA NextInductive == IInv /\ [Next]_vars => IInv'
<1> SUFFICES ASSUME IInv, [Next]_vars
             PROVE  IInv'
  OBVIOUS
<1>1. CASE UNCHANGED vars
  <2>1. UNCHANGED <<conf_, clients, request, asked>>
    BY <1>1 DEF vars
  <2>2. CarriesCredentials'
    BY <2>1 DEF IInv, CarriesCredentials, Asked
  <2> QED BY <2>1, <2>2 DEF IInv
<1> QED BY <1>1, BuilderKeeps, FailureKeeps, ConstructKeeps, RequestKeeps DEF Next

-----------------------------------------------------------------------------
(* Base64. Two characters that are next to each other have all the bits of *)
(* the byte that they share; which bits, that depends on its place.        *)
LEMMA ElementOf ==
    ASSUME NEW S, NEW q \in Seq(S)
    PROVE  \A k \in DOMAIN q : q[k] \in S
OBVIOUS

LEMMA Concatenated ==
    ASSUME NEW S, NEW u \in Seq(S), NEW v \in Seq(S)
    PROVE  /\ u \o v \in Seq(S) /\ Len(u \o v) = Len(u) + Len(v)
           /\ \A k \in 1 .. Len(u) : (u \o v)[k] = u[k]
           /\ \A k \in 1 .. Len(v) : (u \o v)[Len(u) + k] = v[k]
OBVIOUS

Six(a, b, r) == ((256 * a + b) \div 2 ^ (10 - r)) % 64
Eight(x, y, r) == ((64 * x + y) \div 4 ^ (2 - r)) % 256

LEMMA Powers ==
    /\ 10 - 0 = 10 /\ 10 - 2 = 8 /\ 10 - 4 = 6 /\ 10 - 6 = 4
    /\ 2 ^ 10 = 1024 /\ 2 ^ 8 = 256 /\ 2 ^ 6 = 64 /\ 2 ^ 4 = 16
    /\ 2 - 0 = 2 /\ 2 - 1 = 1 /\ 2 - 2 = 0
    /\ 4 ^ 2 = 16 /\ 4 ^ 1 = 4 /\ 4 ^ 0 = 1
OBVIOUS

LEMMA FirstOfThree ==
    ASSUME NEW a \in 0 .. 255, NEW b \in 0 .. 255
    PROVE  Eight(Six(a, b, 0), Six(a, b, 6), 0) = a
<1> DEFINE q == (256 * a + b) \div 16
<1>1. q \in 0 .. 4095 /\ q \div 16 = a /\ (256 * a + b) \div 1024 = q \div 64
  OBVIOUS
<1> HIDE DEF q
<1>2. 64 * ((q \div 64) % 64) + (q % 64) = q
  BY <1>1
<1>3. (q \div 16) % 256 = a
  BY <1>1
<1>4. Six(a, b, 0) = (q \div 64) % 64 /\ Six(a, b, 6) = q % 64
  BY <1>1, Powers DEF Six, q
<1>5. \A x, y \in 0 .. 63 : Eight(x, y, 0) = ((64 * x + y) \div 16) % 256
  BY Powers DEF Eight
<1>6. (q \div 64) % 64 \in 0 .. 63 /\ q % 64 \in 0 .. 63
  BY <1>1
<1> QED BY <1>2, <1>3, <1>4, <1>5, <1>6

LEMMA SecondOfThree ==
    ASSUME NEW a \in 0 .. 255, NEW b \in 0 .. 255, NEW c \in 0 .. 255
    PROVE  Eight(Six(a, b, 6), Six(b, c, 4), 1) = b
<1> DEFINE x == ((256 * a + b) \div 16) % 64
           y == ((256 * b + c) \div 64) % 64
<1>1. x \in 0 .. 63 /\ x % 16 = b \div 16
  OBVIOUS
<1>2. y \in 0 .. 63 /\ y \div 4 = b % 16
  <2> DEFINE e == c \div 64
  <2>1. e \in 0 .. 3 /\ (256 * b + c) \div 64 = 4 * b + e
    OBVIOUS
  <2> HIDE DEF e
  <2>2. (4 * b + e) % 64 \in 0 .. 63 /\ ((4 * b + e) % 64) \div 4 = b % 16
    <3>1. PICK h \in 0 .. 15, l \in 0 .. 15 : b = 16 * h + l
      <4>1. b \div 16 \in 0 .. 15 /\ b % 16 \in 0 .. 15 /\ b = 16 * (b \div 16) + (b % 16)
        OBVIOUS
      <4> QED BY <4>1
    <3>2. 4 * b + e = 64 * h + (4 * l + e) /\ b % 16 = l
      BY <2>1, <3>1
    <3>3. (64 * h + (4 * l + e)) % 64 = 4 * l + e /\ (4 * l + e) \div 4 = l
      BY <2>1
    <3>4. 4 * l + e \in 0 .. 63
      BY <2>1
    <3> QED BY <3>2, <3>3, <3>4
  <2> QED BY <2>1, <2>2
<1> HIDE DEF x, y
<1>3. (64 * x + y) \div 4 = 16 * x + (y \div 4)
  BY <1>1, <1>2
<1>4. (16 * x + (y \div 4)) % 256 = 16 * (x % 16) + (y \div 4)
  BY <1>1, <1>2
<1>5. 16 * (b \div 16) + (b % 16) = b
  OBVIOUS
<1>6. Six(a, b, 6) = x /\ Six(b, c, 4) = y
  <2>1. Six(a, b, 6) = ((256 * a + b) \div 16) % 64
    BY Powers DEF Six
  <2>2. Six(b, c, 4) = ((256 * b + c) \div 64) % 64
    BY Powers DEF Six
  <2> QED BY <2>1, <2>2 DEF x, y
<1>7. Eight(x, y, 1) = ((64 * x + y) \div 4) % 256
  BY Powers DEF Eight
<1> QED BY <1>1, <1>2, <1>3, <1>4, <1>5, <1>6, <1>7

LEMMA ThirdOfThree ==
    ASSUME NEW b \in 0 .. 255, NEW c \in 0 .. 255, NEW d \in 0 .. 255
    PROVE  Eight(Six(b, c, 4), Six(c, d, 2), 2) = c
<1> DEFINE x == ((256 * b + c) \div 64) % 64
           y == ((256 * c + d) \div 256) % 64
<1>1. x \in 0 .. 63 /\ x % 4 = c \div 64
  OBVIOUS
<1>2. y = c % 64
  OBVIOUS
<1> HIDE DEF x, y
<1>3. (64 * x + y) % 256 = 64 * (x % 4) + y
  BY <1>1, <1>2
<1>4. 64 * (c \div 64) + (c % 64) = c /\ (64 * x + y) \div 1 = 64 * x + y
  BY <1>1, <1>2
<1>5. Six(b, c, 4) = x /\ Six(c, d, 2) = y
  <2>1. Six(b, c, 4) = ((256 * b + c) \div 64) % 64
    BY Powers DEF Six
  <2>2. Six(c, d, 2) = ((256 * c + d) \div 256) % 64
    BY Powers DEF Six
  <2> QED BY <2>1, <2>2 DEF x, y
<1>6. Eight(x, y, 2) = ((64 * x + y) \div 1) % 256
  BY Powers DEF Eight
<1> QED BY <1>1, <1>2, <1>3, <1>4, <1>5, <1>6

(* The character k of an encoding, which starts at bit r of byte i.        *)
LEMMA SixBitsAt ==
    ASSUME NEW data \in Seq(0 .. 255), NEW i \in Nat \ {0}, NEW r \in {0, 2, 4, 6}
    PROVE  /\ Byte(data, i) \in 0 .. 255
           /\ SixBits(data, 8 * (i - 1) + r) \in 0 .. 63
           /\ SixBits(data, 8 * (i - 1) + r) = Six(Byte(data, i), Byte(data, i + 1), r)
<1>1. \A k \in Nat \ {0} : Byte(data, k) \in 0 .. 255
  <2>1. \A k \in DOMAIN data : data[k] \in 0 .. 255
    BY ElementOf
  <2> QED BY <2>1 DEF Byte
<1>2. (8 * (i - 1) + r) \div 8 + 1 = i /\ (8 * (i - 1) + r) % 8 = r
  <2>1. PICK j \in Nat : j = i - 1
    OBVIOUS
  <2>2. (8 * j + r) \div 8 = j /\ (8 * j + r) % 8 = r
    OBVIOUS
  <2> QED BY <2>1, <2>2
<1> DEFINE x == 256 * Byte(data, i) + Byte(data, i + 1)
<1>3. x \in Nat /\ Byte(data, i) \in 0 .. 255
  <2>1. i \in Nat \ {0} /\ i + 1 \in Nat \ {0}
    OBVIOUS
  <2>2. Byte(data, i) \in 0 .. 255 /\ Byte(data, i + 1) \in 0 .. 255
    BY <1>1, <2>1
  <2>3. \A p, q \in 0 .. 255 : 256 * p + q \in Nat
    OBVIOUS
  <2> QED BY <2>2, <2>3
<1>4. SixBits(data, 8 * (i - 1) + r) = (x \div 2 ^ (10 - r)) % 64
  BY <1>2 DEF SixBits
<1> HIDE DEF x
<1>5. 2 ^ (10 - r) \in Nat \ {0}
  <2>1. \A e \in {10, 8, 6, 4} : 2 ^ e \in Nat \ {0}
    <3>1. 2 ^ 10 \in Nat \ {0} /\ 2 ^ 8 \in Nat \ {0} /\ 2 ^ 6 \in Nat \ {0} /\ 2 ^ 4 \in Nat \ {0}
      OBVIOUS
    <3> QED BY <3>1, Zenon
  <2>2. 10 - r \in {10, 8, 6, 4}
    OBVIOUS
  <2> QED BY <2>1, <2>2
<1>6. (x \div 2 ^ (10 - r)) % 64 \in 0 .. 63
  BY <1>3, <1>5
<1> QED BY <1>3, <1>4, <1>6 DEF x, Six

(* An encoding is a whole number of groups of four, as many as there are   *)
(* threes of bytes, and its padding says how many bytes the last stands    *)
(* for.                                                                    *)
LEMMA Encoded ==
    ASSUME NEW data \in Seq(0 .. 255)
    PROVE  LET text == Base64Encode(data)
               sixes == (8 * Len(data) + 5) \div 6
           IN  /\ text \in Seq(0 .. 64) /\ Len(text) = sixes + Padding(Len(data))
               /\ \A k \in 1 .. sixes : text[k] = SixBits(data, 6 * (k - 1)) /\ text[k] # Pad
               /\ \A k \in DOMAIN text : k > sixes => text[k] = Pad
<1> DEFINE sixes == (8 * Len(data) + 5) \div 6
           pads == Padding(Len(data))
           u == [k \in 1 .. sixes |-> SixBits(data, 6 * (k - 1))]
           v == [k \in 1 .. pads |-> Pad]
<1>1. sixes \in Nat /\ pads \in Nat
  <2>1. PICK n \in Nat : n = Len(data)
    OBVIOUS
  <2>2. (8 * n + 5) \div 6 \in Nat /\ (3 - (n % 3)) % 3 \in Nat
    OBVIOUS
  <2> QED BY <2>1, <2>2 DEF Padding
<1>2. \A k \in 1 .. sixes : SixBits(data, 6 * (k - 1)) \in 0 .. 63
  <2> SUFFICES ASSUME NEW k \in 1 .. sixes
               PROVE  SixBits(data, 6 * (k - 1)) \in 0 .. 63
    OBVIOUS
  <2>1. PICK j \in Nat : j = k - 1
    BY <1>1
  <2> DEFINE i == (6 * j) \div 8 + 1
             r == (6 * j) % 8
  <2>2. i \in Nat \ {0} /\ r \in {0, 2, 4, 6} /\ 8 * (i - 1) + r = 6 * j
    OBVIOUS
  <2> HIDE DEF i, r
  <2>3. SixBits(data, 8 * (i - 1) + r) \in 0 .. 63
    BY ZenonT(40), <2>2, SixBitsAt
  <2> QED BY <2>1, <2>2, <2>3
<1>3. u \in Seq(0 .. 64) /\ Len(u) = sixes /\ \A k \in 1 .. sixes : u[k] = SixBits(data, 6 * (k - 1))
  BY <1>1, <1>2
<1>4. v \in Seq(0 .. 64) /\ Len(v) = pads /\ \A k \in 1 .. pads : v[k] = Pad
  BY <1>1 DEF Pad
<1>5. Base64Encode(data) = u \o v
  BY DEF Base64Encode
<1> HIDE DEF u, v, sixes, pads
<1>6. /\ u \o v \in Seq(0 .. 64) /\ Len(u \o v) = sixes + pads
      /\ \A k \in 1 .. sixes : (u \o v)[k] = u[k]
      /\ \A k \in 1 .. sixes + pads : k > sixes => (u \o v)[k] = v[k - sixes]
  <2>1. /\ u \o v \in Seq(0 .. 64) /\ Len(u \o v) = sixes + pads
        /\ \A k \in 1 .. sixes : (u \o v)[k] = u[k]
        /\ \A k \in 1 .. pads : (u \o v)[sixes + k] = v[k]
    <3> DEFINE S == 0 .. 64
    <3>1. u \in Seq(S) /\ v \in Seq(S)
      BY <1>3, <1>4
    <3> HIDE DEF S
    <3>2. u \o v \in Seq(S) /\ Len(u \o v) = Len(u) + Len(v)
      BY <3>1
    <3>3. \A k \in 1 .. Len(u) : (u \o v)[k] = u[k]
      BY <3>1
    <3>4. \A k \in 1 .. Len(v) : (u \o v)[Len(u) + k] = v[k]
      BY <3>1
    <3> QED BY <1>3, <1>4, <3>2, <3>3, <3>4 DEF S
  <2>2. \A k \in 1 .. sixes + pads : k > sixes => k - sixes \in 1 .. pads /\ sixes + (k - sixes) = k
    BY <1>1
  <2> QED BY <2>1, <2>2
<1>7. \A k \in DOMAIN (u \o v) : k > sixes => (u \o v)[k] = Pad
  <2>1. DOMAIN (u \o v) = 1 .. sixes + pads
    BY <1>6
  <2>2. \A k \in 1 .. sixes + pads : k > sixes => k - sixes \in 1 .. pads
    BY <1>1
  <2> QED BY <1>4, <1>6, <2>1, <2>2
<1>8. \A k \in 1 .. sixes : u[k] # Pad
  <2>1. \A x \in 0 .. 63 : x # Pad
    BY DEF Pad
  <2> QED BY <1>2, <1>3, <2>1
<1> QED BY <1>3, <1>5, <1>6, <1>7, <1>8 DEF sixes, pads

(* How long an encoding is, for the three remainders.                      *)
LEMMA Lengths ==
    ASSUME NEW n \in Nat
    PROVE  LET sixes == (8 * n + 5) \div 6
           IN  /\ sixes \in Nat /\ Padding(n) \in 0 .. 2
               /\ (sixes + Padding(n)) % 4 = 0
               /\ 3 * ((sixes + Padding(n)) \div 4) - Padding(n) = n
<1>1. PICK g \in Nat, s \in 0 .. 2 : n = 3 * g + s
  <2>1. n = 3 * (n \div 3) + (n % 3) /\ n \div 3 \in Nat /\ n % 3 \in 0 .. 2
    OBVIOUS
  <2> QED BY <2>1
<1>2. n % 3 = s /\ (8 * n + 5) \div 6 = 4 * g + (8 * s + 5) \div 6
  BY <1>1
<1>3. Padding(n) = (3 - s) % 3
  BY <1>2 DEF Padding
<1>4. CASE s = 0
  BY <1>1, <1>2, <1>3, <1>4
<1>5. CASE s = 1
  BY <1>1, <1>2, <1>3, <1>5
<1>6. CASE s = 2
  BY <1>1, <1>2, <1>3, <1>6
<1> QED BY <1>4, <1>5, <1>6

LEMMA EncodedSize ==
    ASSUME NEW data \in Seq(0 .. 255)
    PROVE  WellFormed(Base64Encode(data)) /\ Size(Base64Encode(data)) = Len(data)
<1> DEFINE text == Base64Encode(data)
           sixes == (8 * Len(data) + 5) \div 6
           pads == Padding(Len(data))
           n == Len(data)
<1>1. /\ text \in Seq(0 .. 64) /\ Len(text) = sixes + pads
      /\ \A k \in 1 .. sixes : text[k] # Pad
      /\ \A k \in DOMAIN text : k > sixes => text[k] = Pad
  BY Encoded
<1>2. /\ n \in Nat /\ sixes \in Nat /\ pads \in 0 .. 2
      /\ (sixes + pads) % 4 = 0 /\ 3 * ((sixes + pads) \div 4) - pads = n
  <2>1. Len(data) \in Nat
    OBVIOUS
  <2> HIDE DEF text
  <2> QED BY <2>1, Lengths
<1> HIDE DEF text, sixes, pads, n
<1>3. DOMAIN text = 1 .. sixes + pads
  BY <1>1
<1>4. {k \in DOMAIN text : text[k] = Pad} = sixes + 1 .. sixes + pads
  BY <1>1, <1>2, <1>3
<1>5. Cardinality(sixes + 1 .. sixes + pads) = pads
  <2>1. PICK a \in Int, b \in Int : a = sixes + 1 /\ b = sixes + pads
    BY <1>2
  <2>2. Cardinality(a .. b) = IF a > b THEN 0 ELSE b - a + 1
    BY FS_Interval
  <2>3. Cardinality(a .. b) = pads
    BY <1>2, <2>1, <2>2
  <2> QED BY <2>1, <2>3
<1>6. Size(text) = n
  BY <1>1, <1>2, <1>4, <1>5 DEF Size
<1>7. WellFormed(text)
  BY <1>1, <1>2, <1>3 DEF WellFormed
<1> QED BY <1>6, <1>7 DEF text, n

(* What a server takes from an encoding is what was encoded.               *)
LEMMA DecodeEncode ==
    ASSUME NEW data \in Seq(0 .. 255)
    PROVE  Decode(Base64Encode(data)) = data
<1> DEFINE text == Base64Encode(data)
           sixes == (8 * Len(data) + 5) \div 6
<1>1. /\ Size(text) = Len(data) /\ Len(data) \in Nat
      /\ \A k \in 1 .. sixes : text[k] = SixBits(data, 6 * (k - 1))
  BY EncodedSize, Encoded
<1> HIDE DEF text
<1>2. ASSUME NEW i \in 1 .. Len(data)
      PROVE  EightBits(text, i) = data[i]
  <2>1. PICK g \in Nat, r \in 0 .. 2 : i = 3 * g + r + 1
    <3>1. PICK j \in Nat : i = j + 1
      BY <1>1
    <3>2. j = 3 * (j \div 3) + (j % 3) /\ j \div 3 \in Nat /\ j % 3 \in 0 .. 2
      OBVIOUS
    <3> QED BY <3>1, <3>2
  <2>2. (i - 1) \div 3 = g /\ (i - 1) % 3 = r
    <3>1. i - 1 = 3 * g + r
      BY <2>1
    <3>2. (3 * g + r) \div 3 = g /\ (3 * g + r) % 3 = r
      OBVIOUS
    <3> QED BY <3>1, <3>2
  <2> DEFINE k == 4 * g + r + 1
  <2>3. k \in 1 .. sixes /\ k + 1 \in 1 .. sixes
    <3>1. PICK n \in Nat : n = Len(data) /\ 3 * g + r + 1 <= n
      BY <1>1, <2>1
    <3>2. (8 * n + 5) \div 6 \in Nat /\ (8 * n + 5) \div 6 >= 4 * g + r + 2
      BY <3>1
    <3> QED BY <3>1, <3>2
  <2>4. /\ text[k] = SixBits(data, 6 * (4 * g + r))
        /\ text[k + 1] = SixBits(data, 6 * (4 * g + r + 1))
    <3>1. text[k] = SixBits(data, 6 * (k - 1)) /\ text[k + 1] = SixBits(data, 6 * (k + 1 - 1))
      BY <1>1, <2>3
    <3>2. k - 1 = 4 * g + r /\ k + 1 - 1 = 4 * g + r + 1
      OBVIOUS
    <3> QED BY <3>1, <3>2
  <2>5. EightBits(text, i) = Eight(text[k], text[k + 1], r)
    <3>1. i + ((i - 1) \div 3) = k
      BY <2>1, <2>2
    <3> QED BY <2>2, <3>1 DEF EightBits, Eight
  <2>6. PICK b1 \in 0 .. 255, b2 \in 0 .. 255, b3 \in 0 .. 255, b4 \in 0 .. 255 :
              /\ b1 = Byte(data, 3 * g + 1) /\ b2 = Byte(data, 3 * g + 2)
              /\ b3 = Byte(data, 3 * g + 3) /\ b4 = Byte(data, 3 * g + 4)
    <3>1. 3 * g + 1 \in Nat \ {0} /\ 3 * g + 2 \in Nat \ {0} /\ 3 * g + 3 \in Nat \ {0} /\ 3 * g + 4 \in Nat \ {0}
      OBVIOUS
    <3> QED BY ZenonT(40), <3>1, SixBitsAt
  <2>7. /\ SixBits(data, 6 * (4 * g)) = Six(b1, b2, 0)
        /\ SixBits(data, 6 * (4 * g + 1)) = Six(b1, b2, 6)
        /\ SixBits(data, 6 * (4 * g + 2)) = Six(b2, b3, 4)
        /\ SixBits(data, 6 * (4 * g + 3)) = Six(b3, b4, 2)
    <3>2. /\ 6 * (4 * g) = 8 * (3 * g + 1 - 1) + 0
          /\ 6 * (4 * g + 1) = 8 * (3 * g + 1 - 1) + 6
          /\ 6 * (4 * g + 2) = 8 * (3 * g + 2 - 1) + 4
          /\ 6 * (4 * g + 3) = 8 * (3 * g + 3 - 1) + 2
      OBVIOUS
    <3>3. /\ 3 * g + 1 \in Nat \ {0} /\ 3 * g + 1 + 1 = 3 * g + 2
          /\ 3 * g + 2 \in Nat \ {0} /\ 3 * g + 2 + 1 = 3 * g + 3
          /\ 3 * g + 3 \in Nat \ {0} /\ 3 * g + 3 + 1 = 3 * g + 4
      OBVIOUS
    <3>4. SixBits(data, 6 * (4 * g)) = Six(b1, b2, 0)
      BY <2>6, <3>2, <3>3, SixBitsAt
    <3>5. SixBits(data, 6 * (4 * g + 1)) = Six(b1, b2, 6)
      BY <2>6, <3>2, <3>3, SixBitsAt
    <3>6. SixBits(data, 6 * (4 * g + 2)) = Six(b2, b3, 4)
      BY <2>6, <3>2, <3>3, SixBitsAt
    <3>7. SixBits(data, 6 * (4 * g + 3)) = Six(b3, b4, 2)
      BY <2>6, <3>2, <3>3, SixBitsAt
    <3> QED BY <3>4, <3>5, <3>6, <3>7
  <2>8. data[i] = Byte(data, i)
    <3>1. i \in DOMAIN data
      BY <1>1
    <3> QED BY <3>1 DEF Byte
  <2> HIDE DEF k
  <2>10. CASE r = 0
    <3>1. EightBits(text, i) = Eight(text[k], text[k + 1], 0)
      BY <2>5, <2>10
    <3>2. text[k] = SixBits(data, 6 * (4 * g)) /\ text[k + 1] = SixBits(data, 6 * (4 * g + 1))
      BY <2>4, <2>10
    <3>3. Eight(Six(b1, b2, 0), Six(b1, b2, 6), 0) = b1
      BY FirstOfThree
    <3>4. data[i] = b1
      <4>1. i = 3 * g + 1
        BY <2>1, <2>10
      <4> QED BY <2>6, <2>8, <4>1
    <3> QED BY <2>7, <3>1, <3>2, <3>3, <3>4
  <2>11. CASE r = 1
    <3>1. EightBits(text, i) = Eight(text[k], text[k + 1], 1)
      BY <2>5, <2>11
    <3>2. text[k] = SixBits(data, 6 * (4 * g + 1)) /\ text[k + 1] = SixBits(data, 6 * (4 * g + 2))
      BY <2>4, <2>11
    <3>3. Eight(Six(b1, b2, 6), Six(b2, b3, 4), 1) = b2
      BY SecondOfThree
    <3>4. data[i] = b2
      <4>1. i = 3 * g + 2
        BY <2>1, <2>11
      <4> QED BY <2>6, <2>8, <4>1
    <3> QED BY <2>7, <3>1, <3>2, <3>3, <3>4
  <2>12. CASE r = 2
    <3>1. EightBits(text, i) = Eight(text[k], text[k + 1], 2)
      BY <2>5, <2>12
    <3>2. text[k] = SixBits(data, 6 * (4 * g + 2)) /\ text[k + 1] = SixBits(data, 6 * (4 * g + 3))
      BY <2>4, <2>12
    <3>3. Eight(Six(b2, b3, 4), Six(b3, b4, 2), 2) = b3
      BY ThirdOfThree
    <3>4. data[i] = b3
      <4>1. i = 3 * g + 3
        BY <2>1, <2>12
      <4> QED BY <2>6, <2>8, <4>1
    <3> QED BY <2>7, <3>1, <3>2, <3>3, <3>4
  <2> QED BY <2>10, <2>11, <2>12
<1>3. data = [i \in 1 .. Len(data) |-> data[i]]
  OBVIOUS
<1> QED BY <1>1, <1>2, <1>3 DEF Decode, text

(* The first colon is where the user name ends, if there is none in it.    *)
LEMMA SplitAtColon ==
    ASSUME NEW S, NEW name \in Seq(S), NEW password \in Seq(S), Colon \in S, Colon \notin Range(name)
    PROVE  Split(name \o <<Colon>> \o password) = <<name, password>>
<1> DEFINE n == Len(name)
           p == Len(password)
           data == name \o <<Colon>> \o password
           colons == {i \in DOMAIN data : data[i] = Colon}
<1>1. n \in Nat /\ p \in Nat /\ data \in Seq(S) /\ Len(data) = n + 1 + p
  OBVIOUS
<1>2. /\ \A i \in 1 .. n : data[i] = name[i]
      /\ data[n + 1] = Colon
      /\ \A i \in 1 .. p : data[n + 1 + i] = password[i]
  OBVIOUS
<1>3. DOMAIN name = 1 .. n /\ \A i \in 1 .. n : name[i] # Colon
  BY DEF Range
<1> HIDE DEF data
<1>4. DOMAIN data = 1 .. n + 1 + p
  BY <1>1
<1>5. n + 1 \in colons /\ \A i \in colons : n + 1 <= i /\ i \in Nat
  BY <1>1, <1>2, <1>3, <1>4
<1>6. Min(colons) = n + 1
  <2> HIDE DEF colons
  <2>1. Min(colons) \in colons /\ \A i \in colons : Min(colons) <= i
    BY <1>5 DEF Min
  <2> QED BY <1>1, <1>5, <2>1
<1>7. Split(data) = <<SubSeq(data, 1, n), SubSeq(data, n + 2, n + 1 + p)>>
  <2>1. FirstColon(data) = n + 1
    BY <1>6 DEF FirstColon
  <2>2. Split(data) = <<SubSeq(data, 1, n + 1 - 1), SubSeq(data, n + 1 + 1, Len(data))>>
    BY <2>1 DEF Split
  <2>3. n + 1 - 1 = n /\ n + 1 + 1 = n + 2
    BY <1>1
  <2> QED BY <1>1, <2>2, <2>3
<1>8. SubSeq(data, 1, n) = name
  <2>1. SubSeq(data, 1, n) = [i \in 1 .. n |-> data[i]]
    BY <1>1
  <2>2. name = [i \in 1 .. n |-> name[i]]
    OBVIOUS
  <2> QED BY <1>2, <2>1, <2>2
<1>9. SubSeq(data, n + 2, n + 1 + p) = password
  <2>1. /\ Len(SubSeq(data, n + 2, n + 1 + p)) = p
        /\ SubSeq(data, n + 2, n + 1 + p) \in Seq(S)
        /\ \A i \in 1 .. p : SubSeq(data, n + 2, n + 1 + p)[i] = data[n + 1 + i]
    BY <1>1
  <2>2. password = [i \in 1 .. p |-> password[i]]
    OBVIOUS
  <2> QED BY <1>2, <2>1, <2>2
<1> QED BY <1>7, <1>8, <1>9 DEF data

-----------------------------------------------------------------------------
(* IInv holds in every reachable state.                                    *)
THEOREM InductiveInvariant == Spec => []IInv
BY InitInductive, NextInductive, PTL DEF Spec

(* A client has, of every setting, the last value given before its         *)
(* construction, and TLS only when it is enabled.                          *)
THEOREM ClientMatchesCallsCorrect == Spec => []ClientMatchesCalls
<1>1. IInv => ClientMatchesCalls
  BY DEF IInv, Good, MatchesCalls, ClientMatchesCalls, Constructed
<1> QED BY <1>1, InductiveInvariant, PTL

(* A client has distinct servers, at least one, and a construction fails   *)
(* only for a reason the user gave.                                        *)
THEOREM ServersAreDistinctCorrect == Spec => []ServersAreDistinct
<1>1. IInv => ServersAreDistinct
  BY DEF IInv, Good, HasDistinctServers, ServersAreDistinct
<1> QED BY <1>1, InductiveInvariant, PTL

(* A client has at least one thread, at most four to a core, and as many   *)
(* as the hint says where that is possible.                                *)
THEOREM ThreadsAreEnoughCorrect == Spec => []ThreadsAreEnough
<1>1. IInv => ThreadsAreEnough
  BY DEF IInv, Good, HasThreads, ThreadsAreEnough, Constructed
<1> QED BY <1>1, InductiveInvariant, PTL

(* Every request carries the credentials of its client, and none if there  *)
(* are none.                                                               *)
THEOREM RequestsCarryCredentialsCorrect == Spec => []RequestsCarryCredentials
<1>1. IInv => RequestsCarryCredentials
  BY DEF IInv, CarriesCredentials, RequestsCarryCredentials
<1> QED BY <1>1, InductiveInvariant, PTL

(* A server can read the Authorization field of every request, and takes   *)
(* the user for who he is, for names and passwords of any length and any   *)
(* bytes, unless there is a colon in the name.                             *)
THEOREM CredentialsArriveCorrect == Spec => []CredentialsArrive
<1>1. IInv => CredentialsArrive
  <2> SUFFICES ASSUME IInv, request # NotSet, "Authorization" \in DOMAIN request[2]
               PROVE  LET field == request[2]["Authorization"]
                          cred  == clients[request[1]].asked["authConfig"]
                      IN  /\ WellFormed(field)
                          /\ Colon \notin Range(cred.username) =>
                                Split(Decode(field)) = <<cred.username, cred.password>>
    BY DEF CredentialsArrive
  <2> DEFINE cred == clients[request[1]].asked["authConfig"]
             data == cred.username \o <<Colon>> \o cred.password
  <2>1. Asked(clients[request[1]], "authConfig", NotSet) \in Credential
    BY DEF IInv, CarriesCredentials
  <2>2. Asked(clients[request[1]], "authConfig", NotSet) = cred
    BY <2>1, NotSetAssumption DEF Asked
  <2>3. request[2]["Authorization"] = Base64Encode(data)
    BY <2>1, <2>2 DEF IInv, CarriesCredentials, Authorization, BasicAuthorization
  <2>4. cred.username \in Seq(0 .. 255) /\ cred.password \in Seq(0 .. 255)
    BY <2>1, <2>2, NamesAssumption DEF Credential
  <2> HIDE DEF cred
  <2>5. Colon \in 0 .. 255
    BY DEF Colon
  <2>6. data \in Seq(0 .. 255)
    BY <2>4, <2>5
  <2>7. Colon \notin Range(cred.username) => Split(data) = <<cred.username, cred.password>>
    BY ZenonT(40), <2>4, <2>5, SplitAtColon
  <2> HIDE DEF data
  <2>8. WellFormed(Base64Encode(data)) /\ Decode(Base64Encode(data)) = data
    BY <2>6, EncodedSize, DecodeEncode
  <2> QED BY <2>3, <2>7, <2>8 DEF cred
<1> QED BY <1>1, InductiveInvariant, PTL
=============================================================================
