----------------------------- MODULE MCServing ------------------------------
(***************************************************************************)
(* Small instances of Serving: one territory and the declared anchors.     *)
(***************************************************************************)
EXTENDS Serving, TLC

CONSTANTS LV, EE, ca, ec, granted, national, access, seal, alice, bob, untyped

Plain == [cert |-> ca, status |-> granted, qscd |-> FALSE, uses |-> {},
          type |-> untyped, key |-> "common", name |-> alice]

\* One certificate in the ways an edit of a list can show it.
Variants ==
  {{[Plain EXCEPT !.qscd = TRUE]},
   {[Plain EXCEPT !.uses = {seal}]},
   {[Plain EXCEPT !.type = access]},
   {[Plain EXCEPT !.status = national]},
   {[Plain EXCEPT !.name = bob]},
   {Plain, [Plain EXCEPT !.cert = ec, !.key = "held"]}}

List(anchors, seq, next) ==
  [health |-> "ok", seq |-> seq, nextUpdate |-> next, anchors |-> anchors]

Empty(health) ==
  [health |-> health, seq |-> 0, nextUpdate |-> NoDate, anchors |-> {}]

Snap(lv, ee, internal) ==
  [lotlSequence |-> 1,
   terr         |-> (LV :> lv) @@ (EE :> ee),
   internal     |-> internal]

\* Contents that differ in one thing from the first: its date, which is not
\* part of the id, what the territory lists, which territory lists it, and that
\* the certificate is declared and the list has failed.
Edits ==
  {Snap(List({Plain}, 1, 1), Empty("absent"), {}),
   Snap(List({Plain}, 1, 3), Empty("absent"), {}),
   Snap(Empty("absent"), List({Plain}, 1, 1), {}),
   Snap(Empty("failed"), Empty("absent"), {Plain})}
    \cup {Snap(List(v, 1, 1), Empty("absent"), {}) : v \in Variants}

\* A query, and those that differ from it in one parameter.
Query ==
  [territories |-> {}, use |-> AnyUse, qscdOnly |-> FALSE, type |-> untyped,
   keys |-> "all", format |-> "pem"]

AllQueries ==
  {Query,
   [Query EXCEPT !.territories = {LV}],
   [Query EXCEPT !.use = Authentication],
   [Query EXCEPT !.use = seal],
   [Query EXCEPT !.qscdOnly = TRUE],
   [Query EXCEPT !.type = access],
   [Query EXCEPT !.keys = "common"],
   [Query EXCEPT !.format = "json"]}
=============================================================================
