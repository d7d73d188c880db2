---------------------------- MODULE MCRouting ----------------------------
(* Two carriers on one route, a catch-all route to the second; every    *)
(* setup is one edit away from the first.                               *)
EXTENDS Routing, TLC

CONSTANTS k1, k2

MCCarriers == {k1, k2}

\* Senders are written with the letters and digits of module Numbers.
Brand == <<"B", "a">>
MiniSMS == <<"A">>
AnyWord == <<"a">>
Empty == <<>>
Local == <<"1", "2">>
International == <<"+", "1", "2">>

MCSenders == {Brand, Local, International}
MCKind == Brand :> "alpha" @@ MiniSMS :> "alpha" @@ AnyWord :> "alpha"
          @@ Local :> "numeric" @@ International :> "e164"
MCDestinations == {<<"+", "1", "2">>, <<"+", "2", "0">>}

Row(prefix, rate) == [prefix |-> prefix, rate |-> rate]
Via(prefix, slots) ==
  [prefix |-> prefix, slots |-> slots, weights |-> [i \in DOMAIN slots |-> 1],
   mode |-> "failover", status |-> "active"]
ForceE164 == << [type |-> "strip_leading_plus"], [type |-> "strip_leading_zeros"],
                [type |-> "add_prefix", prefix |-> <<"3">>],
                [type |-> "add_prefix", prefix |-> <<"+">>] >>
National == << [type |-> "strip_symbols"], [type |-> "add_prefix", prefix |-> <<"0">>] >>
Capitals == << [type |-> "strip_symbols"], [type |-> "uppercase"] >>
Renamed == << [type |-> "regex_replace", becomes |-> Brand :> MiniSMS],
              [type |-> "strip_alpha"] >>

Profile1 == [status |-> "active", policy |-> "any", default |-> Empty, transport |-> "http",
             group |-> "cheap", rules |-> ForceE164, senderRules |-> Capitals]
Profile2 == [status |-> "active", policy |-> "list", default |-> Empty, transport |-> "smpp",
             group |-> "none", rules |-> National, senderRules |-> <<>>]

Base ==
  [ mode |-> "list", default |-> Brand, listed |-> {Brand, Local}, listDefault |-> Local,
    lossOK |-> FALSE, failover |-> TRUE, clientGroup |-> "client",
    groups |-> "client" :> {Row(<<"1">>, 2), Row(<<"1", "2">>, 3), Row(CatchAll, 1)}
            @@ "cheap" :> {Row(<<"1">>, 1), Row(CatchAll, 1)}
            @@ "dear" :> {Row(<<"1">>, 3), Row(CatchAll, 1)},
    routes |-> {Via(<<"1">>, <<k1, k2>>), Via(CatchAll, <<k2, k1>>)},
    carriers |-> k1 :> Profile1 @@ k2 :> Profile2,
    lists |-> k1 :> [listed |-> {}, default |-> Local]
           @@ k2 :> [listed |-> {Brand, International}, default |-> Empty] ]

MCSetups ==
  { Base,
    [Base EXCEPT !.mode = "phone"],
    [Base EXCEPT !.default = Empty, !.mode = "any"],
    [Base EXCEPT !.default = Empty, !.listDefault = Empty],
    [Base EXCEPT !.listed = {Local}],
    [Base EXCEPT !.lossOK = TRUE, !.carriers[k1].group = "dear"],
    [Base EXCEPT !.failover = FALSE],
    [Base EXCEPT !.routes = {[Via(<<"1">>, <<k1, k2>>) EXCEPT !.mode = "loadbalance"],
                             [Via(CatchAll, <<k1, k2>>) EXCEPT !.mode = "loadbalance",
                                                               !.weights = <<0, 1>>]}],
    [Base EXCEPT !.routes = {[Via(<<"1">>, <<k2, k1>>) EXCEPT !.mode = "overflow"],
                             [Via(CatchAll, <<k1>>) EXCEPT !.mode = "overflow"]}],
    [Base EXCEPT !.clientGroup = "none"],
    [Base EXCEPT !.groups["client"] = {Row(<<"1", "2">>, 2)}],
    [Base EXCEPT !.groups["cheap"] = @ \cup {Row(<<"1">>, 3)}],
    [Base EXCEPT !.groups["cheap"] = {Row(<<"1">>, 2), Row(<<"1", "2">>, 3)}],
    [Base EXCEPT !.routes = {Via(<<"1">>, <<k1>>), [Via(<<"1", "2">>, <<k2>>) EXCEPT !.status = "inactive"]}],
    [Base EXCEPT !.carriers[k1].group = "dear"],
    [Base EXCEPT !.carriers[k1].status = "disabled"],
    [Base EXCEPT !.carriers[k1].policy = "none", !.carriers[k2].rules = ForceE164,
                 !.carriers[k1].senderRules = Renamed],
    [Base EXCEPT !.carriers[k1].policy = "numeric"],
    [Base EXCEPT !.carriers[k1].policy = "e164", !.carriers[k2].policy = "any"],
    [Base EXCEPT !.carriers[k1].default = International, !.carriers[k1].policy = "e164"],
    [Base EXCEPT !.lists[k2].listed = {}, !.lists[k2].default = International] }
============================================================================
