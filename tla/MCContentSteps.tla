--------------------------- MODULE MCContentSteps ---------------------------
(* Configurations of a module, each with the traffic that exercises it.    *)
EXTENDS ContentSteps

CONSTANTS main, aux, sole, dir, f1, f2, order, item

JobSymmetry == Permutations(Jobs)

MCFilesOf == main :> <<>> @@ sole :> <<>> @@ aux :> <<>> @@ dir :> <<f1, f2>>

Bodies(actions) == {<<"body", x>> : x \in actions}
Paths(endpoints) == {<<"bodyless", x>> : x \in endpoints}

MCOffers ==
  main :> {Bodies({"select"}), Bodies({"select", "init"})} @@ aux :> {Bodies({"init"})}
  @@ sole :> {Bodies({"select"})} @@ dir :> {{}}
  @@ f1 :> {Paths({"catalog"})} @@ f2 :> {Paths({"catalog"}) \cup Bodies({"init"}), Paths({"track"})}

Obj(type, version, host, fits) ==
  [type |-> type, version |-> version, host |-> host, fits |-> fits]

Text == [kind |-> "text"]
Blank == [kind |-> "empty"]
Coded(c) == [kind |-> "object", message |-> FALSE, code |-> c]
Map(valid, violations, items) ==
  [kind |-> "map", valid |-> valid, violations |-> violations, items |-> items]

Base == [endpoint |-> "select", method |-> "POST", query |-> None, bytes |-> "json",
         context |-> TRUE, message |-> TRUE, remote |-> TRUE, action |-> "select", version |-> "2.0.0",
         domain |-> None, bppUri |-> None, bapUri |-> None, conforms |-> TRUE,
         objects |-> <<>>, verdict |-> <<[kind |-> "yes"]>>]

Get(e, q) == [Base EXCEPT !.method = "GET", !.bytes = "none", !.endpoint = e, !.query = q]
With(objects) == [Base EXCEPT !.objects = objects]
Judge(v) == [Base EXCEPT !.verdict = v]

ActionTraffic ==
  { Base, [Base EXCEPT !.action = "init"], [Base EXCEPT !.conforms = FALSE],
    Get("catalog", None), [Get("select", None) EXCEPT !.method = "POST"],
    [Base EXCEPT !.bytes = "bad"] }

(* Paths in sort.Strings' order.                                           *)
Root == <<>>
Message == <<"message">>
Order == <<"message", "order">>
Item == <<"message", "order", "item">>
Other == <<"message", "tags">>
Outside == <<"other">>
MCRank == Root :> 0 @@ Message :> 1 @@ Order :> 2 @@ Item :> 3 @@ Other :> 4 @@ Outside :> 5

Nested(v) == Order :> Obj(order, v, "schema.org", "ok") @@ Item :> Obj(item, v, "schema.org", "ok")
Whole == Message :> Obj(order, 1, "schema.org", "ok") @@ Other :> Obj(item, 2, "schema.org", "ok")
Unversioned == Other :> Obj(item, NoVersion, "schema.org", "ok")
               @@ Order :> Obj(order, 1, "schema.org", "ok")
Around(p, v) == p :> Obj(item, 1, "schema.org", "ok") @@ Order :> Obj(order, v, "schema.org", "ok")
             @@ Message :> Obj(order, 2, "schema.org", "ok")

SchemaTraffic ==
  { With(Message :> Obj(order, 1, "schema.org", "ok")), With(Message :> Obj(item, 1, "schema.org", "ok")),
    With(Message :> Obj(order, 2, "schema.org", "noType")) }

LocalTraffic ==
  { With(Other :> Obj(item, 1, "elsewhere", "ok") @@ Order :> Obj(order, 1, "schema.org", "ok")),
    With(Message :> Obj(order, 1, "elsewhere", "bad")) }

VersionTraffic ==
  { With(Nested(1)), With(Whole), With(Unversioned), With(Nested(2)),
    [With(Nested(1)) EXCEPT !.remote = FALSE] }

(* A URL as it is written: a host, and a query of its own or None.         *)
Written(host, query) == [host |-> host, query |-> query]

RouteTraffic ==
  { Base, [Base EXCEPT !.query = "x"], [Base EXCEPT !.query = "y", !.bppUri = Written("peer", None)],
    [Base EXCEPT !.endpoint = "on_select"],
    [Base EXCEPT !.endpoint = "on_select", !.bapUri = Written("peer", "own"), !.query = "x"],
    [Base EXCEPT !.endpoint = "on_select", !.bapUri = Written("peer", "own")],
    [Base EXCEPT !.endpoint = "on_select", !.bapUri = Written("bad", None)],
    [Base EXCEPT !.version = "1.1.0", !.domain = "retail"],
    [Base EXCEPT !.version = "1.1.0", !.domain = "energy"],
    Get("catalog", "x"), Get("catalog", None), Get("on_select", None), Get("track", "x") }

VerdictTraffic ==
  { Judge(v) : v \in { <<>>, <<[kind |-> "yes"]>>, <<[kind |-> "no"]>>, <<Text>>, <<Blank>>,
                       <<[kind |-> "list", items |-> <<>>]>>,
                       <<[kind |-> "list", items |-> <<Blank>>]>>,
                       <<[kind |-> "list", items |-> <<Blank, Coded("POL_X")>>]>>,
                       <<Map("absent", "absent", <<>>)>>, <<Map("yes", "list", <<>>)>>,
                       <<Map("no", "list", <<Blank>>)>>, <<Map("yes", "list", <<Text>>)>>,
                       <<Map("yes", "list", <<Coded(None)>>)>>, <<Map("absent", "list", <<>>)>>,
                       <<Map("yes", "list", <<Coded(None), Coded("POL_X")>>)>>, <<Map("yes", "wrong", <<>>)>>,
                       <<[kind |-> "yes"], [kind |-> "other"]>> } }
  \cup {Get("select", None)}

Rule(domain, version, type, url, es) ==
  [domain |-> domain, version |-> version, targetType |-> type, url |-> url,
   publisher |-> None, excludeAction |-> FALSE, endpoints |-> es]

Rules ==
  << Rule(None, "2.0.0", "url", Written("app", "token"), {"select", "catalog"}),
     Rule("retail", "2.0.0", "bap", None, {"on_select"}),
     [Rule(None, "2.1.0", "publisher", None, {"catalog"}) EXCEPT !.publisher = "queue"],
     Rule("retail", "1.1.0", "url", Written("old", None), {"select"}),
     [Rule("retail", "1.1.0", "url", Written("new", None), {"select"}) EXCEPT !.excludeAction = TRUE],
     Rule("energy", "1.1.0", "receiver", Written("gateway", None), {"select"}) >>

Manifest(orders, policy) ==
  order :> [supported |-> orders, policy |-> policy, pinned |-> 3]
  @@ item :> [supported |-> {2}, policy |-> "latest", pinned |-> None]

Plain == [steps |-> <<"addRoute">>, sources |-> <<main>>, primary |-> TRUE, reloads |-> FALSE, extended |-> FALSE,
          local |-> FALSE, allowList |-> FALSE, policy |-> "none", onboarded |-> TRUE,
          caller |-> FALSE, action |-> "translate", onFailure |-> "reject",
          manifest |-> Manifest({2}, "latest"), rules |-> Rules, traffic |-> {Base}]

Reloading == [Plain EXCEPT !.steps = <<"validateSchema">>, !.reloads = TRUE, !.traffic = ActionTraffic]
Extended == [Plain EXCEPT !.steps = <<"validateSchema">>, !.extended = TRUE,
                          !.sources = <<sole>>, !.traffic = SchemaTraffic]
Mediating == [Plain EXCEPT !.steps = <<"mediateSchema">>, !.traffic = VersionTraffic]

MCConfigs ==
  { [Reloading EXCEPT !.sources = <<main, aux>>],
    [Reloading EXCEPT !.sources = <<aux, dir>>, !.primary = FALSE,
                      !.traffic = {Get("catalog", None)}],
    Extended,
    [Extended EXCEPT !.traffic = {With(Outside :> Obj(item, 1, "schema.org", "bad")),
                                  [Base EXCEPT !.message = FALSE]}],
    [Extended EXCEPT !.local = TRUE, !.allowList = TRUE, !.traffic = LocalTraffic],
    [Mediating EXCEPT !.traffic = {With(Unversioned)}],
    [Mediating EXCEPT !.traffic = {With(Whole)}, !.manifest = Manifest({2, 4}, "pinned")],
    [Mediating EXCEPT !.traffic = {With(Nested(1))},
                      !.onFailure = "passThrough", !.caller = TRUE],
    [Mediating EXCEPT !.traffic = {With(Around(Root, 2)), With(Nested(2))}],
    [Mediating EXCEPT !.traffic = {With(Around(Outside, 1))}],
    [Mediating EXCEPT !.traffic = {[With(Outside :> Obj(item, 1, "schema.org", "ok"))
                                      EXCEPT !.message = FALSE]}],
    [Mediating EXCEPT !.action = "reject"],
    [Mediating EXCEPT !.onboarded = FALSE],
    [Mediating EXCEPT !.manifest = Manifest({}, "latest")],
    [Plain EXCEPT !.traffic = RouteTraffic],
    [Plain EXCEPT !.steps = <<"checkPolicy", "addRoute">>, !.policy = "enabled",
                  !.traffic = VerdictTraffic],
    [Plain EXCEPT !.steps = <<"checkPolicy">>, !.policy = "disabled", !.traffic = VerdictTraffic],
    [Plain EXCEPT !.rules = <<Rule(None, "2.0.0", "url", None, {"select"})>>],
    [Plain EXCEPT !.rules = Rules \o <<Rule("any", "2.0.0", "url", Written("app", None), {"select"})>>] }
=============================================================================
