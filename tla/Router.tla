------------------------------- MODULE Router -------------------------------
(***************************************************************************)
(* The router plugin: how a list of rules becomes a table of routes, and   *)
(* which route a request gets.  Every request is given its route from the  *)
(* same table.  A URL is a host, a path as a sequence of segments and a    *)
(* query.  A rule's URL and a URI in a request are written with a host,    *)
(* "bad" when they do not parse, and possibly a query of their own.        *)
(***************************************************************************)
EXTENDS MessageSteps

CONSTANTS V2Versions  \* versions that start with "2."

ASSUME RouterAssumption ==
  \A c \in Configs : Len(c.rules) \in Nat /\ DOMAIN c.rules = 1 .. Len(c.rules)

VARIABLE table  \* <<domain, version, endpoint>> -> route

TargetTypes == {"url", "publisher", "bpp", "bap", "receiver", "sender"}
Dynamic == {"bpp", "bap", "receiver", "sender"}

IsV2Version(v) == v \in V2Versions

(* url.Parse and joinPath: a query that is written in the URL stays in it. *)
URL(u, path) == [host |-> u.host, path |-> path, query |-> u.query]

-----------------------------------------------------------------------------
(* loadRules *)

ValidRule(r) ==
  /\ r.version # None /\ r.targetType \in TargetTypes
  /\ IsV2Version(r.version) \/ r.domain # None
  /\ r.targetType = "url" => r.url # None /\ r.url.host # "bad"
  /\ r.targetType = "publisher" => r.publisher # None
  /\ r.targetType \in Dynamic /\ r.url # None => r.url.host # "bad"

RuleDomain(r) == IF IsV2Version(r.version) THEN "*" ELSE r.domain

RuleKeys(r) == {<<RuleDomain(r), r.version, e>> : e \in r.endpoints}

RuleRoute(r, e) ==
  [targetType |-> r.targetType,
   publisher |-> IF r.targetType = "publisher" THEN r.publisher ELSE None,
   url |-> IF r.targetType = "publisher" \/ r.url = None THEN None
           ELSE URL(r.url, IF r.targetType = "url" /\ r.excludeAction THEN <<>> ELSE <<e>>)]

(* Of two rules for the same domain, version and endpoint the later one    *)
(* counts; version 2 allows no two.                                        *)
RulesLoad(rules) ==
  /\ \A i \in DOMAIN rules : ValidRule(rules[i])
  /\ \A i, k \in DOMAIN rules :
       i # k /\ IsV2Version(rules[i].version) => RuleKeys(rules[i]) \cap RuleKeys(rules[k]) = {}

Table(rules) ==
  [key \in UNION {RuleKeys(rules[i]) : i \in DOMAIN rules} |->
     LET last == CHOOSE i \in DOMAIN rules :
                   /\ key \in RuleKeys(rules[i])
                   /\ \A k \in DOMAIN rules : key \in RuleKeys(rules[k]) => k <= i
     IN RuleRoute(rules[last], key[3])]

RouterInit == table = Table(env.rules)

-----------------------------------------------------------------------------
(* Route *)

WithQuery(url, q) == IF q = None THEN url ELSE [url EXCEPT !.query = q]

Static(route, q) ==
  IF route.targetType = "url" THEN [route EXCEPT !.url = WithQuery(@, q)] ELSE route

(* handleProtocolMapping: the URI in the request before the rule's own.    *)
HandleProtocolMapping(route, uri, m) ==
  LET to(url) == {[targetType |-> "url", publisher |-> None, url |-> WithQuery(url, m.query)]}
  IN IF uri = None THEN IF route.url = None THEN {} ELSE to(route.url)
     ELSE IF uri.host = "bad" THEN {}
     ELSE to(URL(uri, <<m.endpoint>>))

(* routeBodyless: the first version of the map's iteration that has the    *)
(* endpoint, and the map is iterated in no particular order.               *)
BodylessKeys(m) == {k \in DOMAIN table : k[1] = "*" /\ k[3] = m.endpoint}

RouteBodyless(m) ==
  {Static(table[k], m.query) : k \in {k \in BodylessKeys(m) : table[k].targetType \notin Dynamic}}

BodylessFails(m) ==
  BodylessKeys(m) = {} \/ \E k \in BodylessKeys(m) : table[k].targetType \in Dynamic

RouteWithBody(m) ==
  LET key == <<IF IsV2Version(m.version) THEN "*" ELSE m.domain, m.version, m.endpoint>> IN
  IF key \notin DOMAIN table THEN {}
  ELSE IF table[key].targetType \in {"bpp", "receiver"}
       THEN HandleProtocolMapping(table[key], m.bppUri, m)
  ELSE IF table[key].targetType \in {"bap", "sender"}
       THEN HandleProtocolMapping(table[key], m.bapUri, m)
  ELSE {Static(table[key], m.query)}

(* The routes a request may get, and whether it may get none.              *)
Routes(m) == IF m.bytes = "none" THEN RouteBodyless(m) ELSE RouteWithBody(m)
MayFail(m) == IF m.bytes = "none" THEN BodylessFails(m) ELSE RouteWithBody(m) = {}

Routed(r, route) == Advanced([r EXCEPT !.route = route])

(* Fault: the query is written into the table's own URL.                   *)
AddRouteShared(j) ==
  /\ At(j, "addRoute")
  /\ LET r == job[j] IN
     \/ /\ \E route \in Routes(r.msg) :
             job' = [job EXCEPT ![j] = Routed(r, route)]
        /\ table' = [k \in DOMAIN table |->
             IF k[3] = r.msg.endpoint /\ table[k].targetType = "url"
             THEN Static(table[k], r.msg.query) ELSE table[k]]
     \/ /\ MayFail(r.msg) /\ job' = [job EXCEPT ![j] = Refused(r)]
        /\ UNCHANGED table

(* The addRoute step.  The table is only read: a URL that gets the         *)
(* request's query is a clone.                                             *)
AddRoute(j) ==
  /\ At(j, "addRoute")
  /\ LET r == job[j] IN
     \/ \E route \in Routes(r.msg) :
          job' = [job EXCEPT ![j] = Routed(r, route)]
     \/ MayFail(r.msg) /\ job' = [job EXCEPT ![j] = Refused(r)]
  /\ UNCHANGED table

-----------------------------------------------------------------------------
(* Properties *)

Names(rule, m) ==
  /\ m.endpoint \in rule.endpoints
  /\ IF m.bytes = "none" THEN RuleDomain(rule) = "*"
     ELSE rule.version = m.version /\ (IsV2Version(m.version) \/ rule.domain = m.domain)

(* A request goes where some rule for its own domain, version and endpoint *)
(* sends it, with the query it came with, or the one written in its        *)
(* target's URL when it came with none, and never with another request's,  *)
(* whatever requests were routed by the same table before or meanwhile.    *)
RoutesAreOwn ==
  \A j \in Jobs :
    job[j].route # None =>
      LET m == job[j].msg
          to == job[j].route
      IN \E i \in DOMAIN env.rules :
           LET rule == env.rules[i]
               uri == IF rule.targetType \in {"bpp", "receiver"} THEN m.bppUri ELSE m.bapUri
               base == IF rule.targetType \in Dynamic /\ uri # None THEN uri ELSE rule.url
           IN /\ Names(rule, m)
              /\ IF rule.targetType = "publisher"
                 THEN to.publisher = rule.publisher /\ to.url = None
                 ELSE /\ to.targetType = "url" /\ to.url.host = base.host
                      /\ to.url.query = IF m.query # None THEN m.query ELSE base.query
                      /\ m.endpoint \in ToSet(to.url.path) \/ rule.excludeAction
=============================================================================
