----------------------------- MODULE XrayConfig -----------------------------
(***************************************************************************)
(* What a node's Xray is made to run, and what its users are told.  The    *)
(* panel builds a configuration from the rows of the node                  *)
(* (xray-node-config-builder), the agent rebuilds it with the users it     *)
(* has polled (generator.go, clients.go) and writes it for Xray; and users *)
(* get links and profiles for their inbounds (subscription.service).       *)
(*                                                                         *)
(* One inbound with one client; outbounds and rules are created under the  *)
(* validators.  A list of outbounds or rules is a function on positions,   *)
(* of which some may be free: what counts is which entry comes first.      *)
(***************************************************************************)
EXTENDS Naturals, Functions

CONSTANTS
    MaxOutbounds,   \* bound: positions of the node's outbounds
    MaxRules,       \* bound: positions of the node's rules
    MaxKept         \* bound: positions of rules that pile up in memory between two polls

ASSUME ListsAssumption == MaxOutbounds \in Nat /\ MaxRules \in Nat /\ MaxKept \in Nat

VARIABLES
    dto,        \* what the operator asked for: the inbound and its client
    inbound,    \* the inbound's row
    outbounds,  \* rows
    rules,      \* rows
    polled,     \* the outbounds and rules that the last poll has read
    kept,       \* the configuration that the agent holds in memory
    file        \* the configuration that Xray runs

rows == <<inbound, outbounds, rules>>
xrayVars == <<dto, rows, polled, kept, file>>

None == "none"
Protocol == {"vless", "vmess", "trojan", "shadowsocks", "socks", "http"}
Transport == {"tcp", "ws", "grpc", "h2"}
Security == {"none", "tls", "reality"}
OutProtocol == {"freedom", "socks", "vmess"}
OutTag == {"direct", "api", "exit1", "exit2"}
Match == {"a", "b", "any"}
RuleTarget == {"exit1", "exit2", "api", "balancer", None}

\* A path, host, service name or server name that is not given is None; an
\* operator who passes raw JSON may add the public key of reality, which the
\* form has a field for and the builder drops.  The keys
\* are reality's private key and shadowsocks' method and password.  Every
\* client has a uuid; flow, password and method may be missing.
Dto == [protocol : Protocol, transport : Transport, security : Security, named : BOOLEAN,
        raw : BOOLEAN, keys : BOOLEAN, flow : BOOLEAN, password : BOOLEAN, method : BOOLEAN]

-----------------------------------------------------------------------------
Empty == [i \in {} |-> None]
Least(S) == CHOOSE i \in S : \A j \in S : i <= j

\* A list with x in front of it.
Prepend(x, l) == [i \in {0} \cup {j + 1 : j \in DOMAIN l} |-> IF i = 0 THEN x ELSE l[i - 1]]

Named(os, tag) == {i \in DOMAIN os : os[i].tag = tag}
-----------------------------------------------------------------------------
(* The panel: building the rows.                                           *)

\* buildStreamSettings.  Of reality's keys only the private one is written.
StreamSettings(d) ==
    LET name(x) == IF d.named THEN x ELSE None
        default(x) == IF d.named THEN x ELSE "/"
    IN  [network |-> d.transport,
         security |-> d.security,
         sni |-> IF d.security = "none" THEN None ELSE name("sni"),
         publicKey |-> IF d.security = "reality" /\ d.raw THEN "key" ELSE None,
         privateKey |-> d.security = "reality" /\ d.keys,
         path |-> IF d.transport \in {"ws", "h2"} THEN default("path") ELSE None,
         host |-> IF d.transport = "ws" THEN name("host") ELSE None,
         service |-> IF d.transport = "grpc" THEN name("service") ELSE None]

\* The settings of a shadowsocks inbound have a method and a password, or not.
BuiltInbound(d) == [protocol |-> d.protocol, stream |-> StreamSettings(d),
                    cipher |-> d.protocol = "shadowsocks" /\ d.keys]

\* The validator of outbounds wants the server's address of a proxy, which
\* outbound.service never gives it.
OutboundAccepted(o) ==
    /\ o.protocol \notin {"vmess", "vless", "trojan", "shadowsocks"}
    /\ Named(outbounds, o.tag) = {}

\* The validator of rules wants a target, and knows no balancer since
\* routing.service gives it none; an outbound that is not there is a warning.
RuleAccepted(rule) == rule.target \notin {None, "balancer"}
-----------------------------------------------------------------------------
(* The panel: the node's configuration.                                    *)

Out(tag, protocol) == [tag |-> tag, protocol |-> protocol]
Rule(match, target) == [match |-> match, target |-> target]

\* buildOutboundsConfig and buildRoutingConfig: the defaults come first.
NodeConfig(os, rs) ==
    [outbounds |-> Prepend(Out("direct", "freedom"), Prepend(Out("blocked", "blackhole"), os)),
     rules |-> Prepend(Rule("panel-api", "api"), rs)]
-----------------------------------------------------------------------------
(* The panel: the check before a configuration is pushed to a stream.      *)

\* What of the check may fail on an inbound of the form, which has no clients
\* yet; the rest warns.
StreamValid(stream) ==
    /\ stream.security = "reality" => stream.privateKey /\ stream.sni # None
    /\ stream.network = "grpc" => stream.service # None

InboundValid(x) == (x.protocol = "shadowsocks" => x.cipher) /\ StreamValid(x.stream)

Valid(config) ==
    InboundValid(config.inbound) /\ \A x \in Range(config.rules) : x.target # None

\* The rows themselves are checked: settings, stream settings and the rules'
\* contents are JSON text there, of which the check sees no field.
PushedRows ==
    [inbound |-> [inbound EXCEPT !.stream.network = "tcp", !.stream.security = "none", !.cipher = FALSE],
     rules |-> [i \in DOMAIN rules |-> Rule(rules[i].match, None)]]
-----------------------------------------------------------------------------
(* The agent.                                                              *)

\* Rules without a target are skipped; the agent's own rule is prepended, to
\* the very object that is kept until the next poll.
AgentRules(rs) ==
    Prepend(Rule("agent-api", "api"), Restrict(rs, {i \in DOMAIN rs : rs[i].target # None}))

\* The first occurrence of every tag.
Dedup(os) ==
    Restrict(os, {i \in DOMAIN os : \A j \in DOMAIN os : os[j].tag = os[i].tag => i <= j})

\* MUTANT of AgentOutbounds: the outbounds keep their order behind "api".
AgentOutboundsInOrder(os) == Dedup(Prepend(Out("api", "blackhole"), os))

\* MUTANT of AgentOutbounds: the rest is appended as it is.
AgentOutboundsTwice(os) == Prepend(Out("direct", "freedom"), Prepend(Out("api", "blackhole"), os))

\* "direct" first, since Xray's default is the first; then "api".
AgentOutbounds(os) ==
    LET direct == Named(os, "direct")
    IN  Dedup(Prepend(IF direct = {} THEN Out("direct", "freedom") ELSE os[Least(direct)],
                      Prepend(Out("api", "blackhole"), os)))

\* buildClients and buildSocksAccounts: the credential by the protocol.
FileClient(protocol) ==
    CASE protocol \in {"vless", "vmess"} -> [id |-> "uuid", flow |-> IF protocol = "vless" /\ dto.flow
                                                                       THEN "flow" ELSE None]
      [] protocol = "trojan" -> [password |-> IF dto.password THEN "password" ELSE None]
      [] protocol = "shadowsocks" -> [password |-> IF dto.password THEN "password" ELSE None,
                                      method |-> IF dto.method THEN "method" ELSE None]
      [] OTHER -> [user |-> "email"]

Generate(config) ==
    [rules |-> AgentRules(config.rules), outbounds |-> AgentOutbounds(config.outbounds)]
-----------------------------------------------------------------------------
(* Xray.                                                                   *)

\* The rules that match.
Hits(rs, traffic) == {i \in DOMAIN rs : rs[i].match \in {traffic, "any"}}

\* The outbound that traffic takes: that of the first rule that matches, the
\* first of all if there is no rule or no such outbound.
Route(config, traffic) ==
    LET hits == Hits(config.rules, traffic)
        named == IF hits = {} THEN {} ELSE Named(config.outbounds, config.rules[Least(hits)].target)
    IN  config.outbounds[Least(IF named = {} THEN DOMAIN config.outbounds ELSE named)]

\* A profile reaches the inbound if it has its transport, security and names,
\* and the credential that the inbound's file has for the client.  No profile has
\* the account of a socks or an http inbound.
Reaches(p) ==
    LET s == inbound.stream
        c == FileClient(inbound.protocol)
    IN  /\ p.type = inbound.protocol /\ p.network = s.network /\ p.security = s.security
        /\ s.network \in {"ws", "h2"} => p.path = s.path
        /\ s.host # None => p.host = s.host
        /\ s.network = "grpc" => p.service = s.service
        /\ s.security # "none" => p.sni = s.sni
        /\ s.security = "reality" => p.publicKey = "key"
        /\ CASE inbound.protocol = "vless" -> p.id = c.id /\ p.flow = c.flow
             [] inbound.protocol = "vmess" -> p.id = c.id
             [] inbound.protocol = "trojan" -> p.password = c.password
             [] inbound.protocol = "shadowsocks" -> p.password = c.password /\ p.cipher = c.method
             [] OTHER -> FALSE
-----------------------------------------------------------------------------
(* Subscriptions.                                                          *)

\* buildProxyNodes: read back from the stream settings.
ProxyNode ==
    LET s == inbound.stream
        p == inbound.protocol
    IN  [type |-> p, network |-> s.network, security |-> s.security, tls |-> s.security = "tls",
         sni |-> s.sni,
         publicKey |-> s.publicKey,
         id |-> IF p \in {"vless", "vmess"} THEN "uuid" ELSE None,
         flow |-> IF p = "vless" /\ dto.flow THEN "flow" ELSE None,
         password |-> IF p \in {"trojan", "shadowsocks"} /\ dto.password THEN "password" ELSE None,
         cipher |-> IF dto.method THEN "method" ELSE "aes-256-gcm",
         path |-> s.path, host |-> s.host, service |-> s.service]

\* What a program makes of a profile in which these fields are missing.
Leaving(n, fields) == [f \in DOMAIN n |-> IF f \in fields THEN None ELSE n[f]]

\* MUTANT of ToV2rayLink: the host of a WebSocket is left out.
ToV2rayLinkNoHost(n) ==
    CASE n.type = "vless" -> Leaving(n, {"host"})
      [] n.type = "vmess" -> [Leaving(n, {"service", "publicKey", "flow"}) EXCEPT
                                !.security = IF n.tls THEN "tls" ELSE "none"]
      [] n.type = "trojan" -> [Leaving(n, {"host", "publicKey"}) EXCEPT !.security = "tls"]
      [] OTHER -> [n EXCEPT !.network = "tcp", !.security = "none"]

\* A link of trojan means TLS, and one of shadowsocks means neither TLS nor a
\* transport.
ToV2rayLink(n) ==
    CASE n.type = "vless" -> n
      [] n.type = "vmess" -> [Leaving(n, {"service", "publicKey", "flow"} \cup
                                         (IF n.network = "h2" THEN {"path", "host"} ELSE {})) EXCEPT
                                !.security = IF n.tls THEN "tls" ELSE "none"]
      [] n.type = "trojan" -> [Leaving(n, {"host", "publicKey"} \cup
                                          (IF n.network = "h2" THEN {"path"} ELSE {})) EXCEPT
                                 !.security = "tls"]
      [] OTHER -> [n EXCEPT !.network = "tcp", !.security = "none"]

\* Clash: only vless knows reality and HTTP/2.
ToClash(n) ==
    CASE n.type = "vless" -> n
      [] n.type = "vmess" -> [Leaving(n, {"service", "publicKey"} \cup
                                         (IF n.network = "h2" THEN {"path", "host"} ELSE {})) EXCEPT
                                !.security = IF n.tls THEN "tls" ELSE "none"]
      [] n.type = "trojan" -> [Leaving(n, {"host", "publicKey"} \cup
                                          (IF n.network = "h2" THEN {"path"} ELSE {})) EXCEPT
                                 !.security = "tls"]
      [] OTHER -> [n EXCEPT !.network = "tcp", !.security = "none"]

\* sing-box: no reality at all, a transport for vless and vmess only.
ToSingbox(n) ==
    LET network(known) == IF n.network \in known THEN n.network ELSE "tcp"
    IN  CASE n.type = "vless" -> [Leaving(n, {"publicKey"}) EXCEPT
                                    !.security = IF n.tls THEN "tls" ELSE "none",
                                    !.network = network({"ws", "grpc"})]
          [] n.type = "vmess" -> [Leaving(n, {"publicKey", "host"}) EXCEPT
                                    !.security = IF n.tls THEN "tls" ELSE "none",
                                    !.network = network({"ws"})]
          [] n.type = "trojan" -> [n EXCEPT !.security = "tls", !.network = "tcp"]
          [] OTHER -> [n EXCEPT !.network = "tcp", !.security = "none"]
-----------------------------------------------------------------------------
Nothing == [outbounds |-> Empty, rules |-> Empty]

XrayTypeOK ==
    /\ dto \in Dto /\ inbound = BuiltInbound(dto)
    /\ DOMAIN outbounds \subseteq 1..MaxOutbounds /\ DOMAIN rules \subseteq 1..MaxRules
    /\ \A i, j \in DOMAIN outbounds : outbounds[i].tag = outbounds[j].tag => i = j
    /\ \A i, j \in DOMAIN file.outbounds : file.outbounds[i].tag = file.outbounds[j].tag => i = j
    /\ \A x \in Range(rules) \cup Range(kept.rules) \cup Range(file.rules) : x.target \in OutTag

XrayInit ==
    /\ dto \in Dto /\ inbound = BuiltInbound(dto)
    /\ outbounds = Empty /\ rules = Empty
    /\ polled = Nothing /\ kept = Nothing /\ file = Nothing

\* Bound: rows are edited before the first poll, as every poll replaces all
\* that is kept of the last; and next to one inbound, as nothing that reads
\* the inbounds reads the outbounds or the rules.
Plain == [protocol |-> "vless", transport |-> "tcp", security |-> "none", named |-> FALSE,
          raw |-> FALSE, keys |-> FALSE, flow |-> FALSE, password |-> FALSE, method |-> FALSE]
Editing == kept = Nothing /\ dto = Plain

\* x at position i.
Placed(l, i, x) == [j \in {i} \cup DOMAIN l |-> IF j = i THEN x ELSE l[j]]

\* Which position a row has among the others is the operator's choice.
CreateOutbound ==
    /\ Editing
    /\ \E i \in (1..MaxOutbounds) \ DOMAIN outbounds, tag \in OutTag, protocol \in OutProtocol :
          /\ OutboundAccepted(Out(tag, protocol))
          /\ outbounds' = Placed(outbounds, i, Out(tag, protocol))
    /\ UNCHANGED <<dto, inbound, rules, polled, kept, file>>

DeleteOutbound ==
    /\ Editing
    /\ \E i \in DOMAIN outbounds : outbounds' = Restrict(outbounds, DOMAIN outbounds \ {i})
    /\ UNCHANGED <<dto, inbound, rules, polled, kept, file>>

CreateRule ==
    /\ Editing
    /\ \E i \in (1..MaxRules) \ DOMAIN rules, match \in Match, target \in RuleTarget :
          /\ RuleAccepted(Rule(match, target))
          /\ rules' = Placed(rules, i, Rule(match, target))
    /\ UNCHANGED <<dto, inbound, outbounds, polled, kept, file>>

Poll ==
    /\ polled' = [outbounds |-> outbounds, rules |-> rules]
    /\ kept' = NodeConfig(outbounds, rules)
    /\ UNCHANGED <<dto, rows, file>>

\* At a poll, and again whenever the users are polled.
WriteFile ==
    /\ kept # Nothing /\ \A i \in DOMAIN kept.rules : i < MaxKept
    /\ file' = Generate(kept)
    /\ kept' = [kept EXCEPT !.rules = file'.rules]
    /\ UNCHANGED <<dto, rows, polled>>

XrayNext == CreateOutbound \/ DeleteOutbound \/ CreateRule \/ Poll \/ WriteFile

XraySpec == XrayInit /\ [][XrayNext]_xrayVars
-----------------------------------------------------------------------------
(* Properties.                                                             *)

\* Where the rows of the last poll send the traffic: the first rule that
\* matches, to the operator's outbound unless its name is one of the panel's
\* own; and directly otherwise.
Intended(traffic) ==
    Route([outbounds |-> Prepend(Out("direct", "freedom"),
                                 Prepend(Out("api", "blackhole"), polled.outbounds)),
           rules |-> polled.rules], traffic)

\* However often the agent rebuilds the configuration it keeps, Xray sends
\* all traffic where the rows of the last poll say, and the agent's own API
\* calls to the API even behind a rule that matches everything.
RoutesKept ==
    file # Nothing /\ file.rules = kept.rules =>
        /\ \A traffic \in {"a", "b"} : Route(file, traffic) = Intended(traffic)
        /\ Route(file, "agent-api").tag = "api"

\* The inbounds that the form can build and a format does not describe.
\*   - vless with reality, although the profiles claim "Reality support": the
\*     builder writes no public key, which only raw JSON can have; sing-box's
\*     profiles have neither reality nor HTTP/2.
\*   - vmess with reality, HTTP/2, or gRPC with a service name; in sing-box's
\*     any gRPC, and with a host.
\*   - trojan without TLS, with HTTP/2 or with a host; in sing-box's with
\*     any transport.
\*   - shadowsocks with a transport or TLS, and for a client without a method.
Broken(format) ==
    LET p == inbound.protocol
        s == inbound.stream
        singbox == format = "singbox"
    IN  CASE p = "vless" -> \/ s.security = "reality" /\ (singbox \/ ~dto.raw)
                            \/ s.network = "h2" /\ singbox
          [] p = "vmess" -> \/ s.security = "reality" \/ s.network = "h2"
                            \/ s.network = "grpc" /\ (singbox \/ s.service # None)
                            \/ s.host # None /\ singbox
          [] p = "trojan" -> \/ s.security # "tls" \/ s.network = "h2" \/ s.host # None
                             \/ s.network # "tcp" /\ singbox
          [] p = "shadowsocks" -> s.network # "tcp" \/ s.security # "none" \/ ~dto.method
          [] OTHER -> TRUE

\* What a user is given reaches the inbound that Xray runs for him, naming the
\* same transport, security and credential, unless the inbound is one of those
\* above; and then it does not: the list of what is broken is complete and has
\* nothing in it that works.
ReachUnlessBroken ==
    /\ Reaches(ToV2rayLink(ProxyNode)) <=> ~Broken("link")
    /\ Reaches(ToClash(ProxyNode)) <=> ~Broken("clash")
    /\ Reaches(ToSingbox(ProxyNode)) <=> ~Broken("singbox")

\* The check before a push ("Validate config before pushing to Agent",
\* grpc-agent.service) refuses no configuration that is valid.
ValidIsPushed == Valid([inbound |-> inbound, rules |-> rules]) => Valid(PushedRows)
=============================================================================
