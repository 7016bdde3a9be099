---------------------------- MODULE MCContracts -----------------------------
(***************************************************************************)
(* Small manifests for TLC: an embedded object and a collection with       *)
(* errors, a database and a payment, a policy that refuses the prober, and *)
(* two resources with one short name.                                      *)
(***************************************************************************)
EXTENDS Contracts

CONSTANTS ana, bob

MCPrincipals == {ana, bob}

Dotted(a, b) == <<a, Dot, b>>
Customer == Dotted("m", "Customer")
Oops == Dotted("m", "Oops")
Other == Dotted("a", "Customer")
GetId == Dotted("m", "get")
ListId == Dotted("m", "list")
RowsId == Dotted("m", "rows")
PayId == Dotted("m", "pay")

-----------------------------------------------------------------------------
(* Bodies. *)
At(path, atom) == [p \in {path} |-> atom]
Item(at, name) == At(at, "obj") @@ At(at \o <<"id">>, "txt") @@ At(at \o <<"name">>, name)
Order == <<"orders", "#1">>

One == Item(<<>>, "txt") @@ At(<<"orders">>, "arr") @@ At(Order, "obj") @@ At(Order \o <<"sku">>, "txt")
OneMore == One @@ At(<<"city">>, "txt") @@ At(Order \o <<"tags">>, "arr") @@ At(Order \o <<"tags", "#1">>, "txt")
OneLess == Item(<<>>, "nil") @@ One

ListOf(first, second) == At(<<>>, "obj") @@ At(<<"items">>, "arr") @@ first @@ second
Item1 == Item(<<"items", "#1">>, "txt")
Item2 == Item(<<"items", "#2">>, "txt")
Error2 == At(<<"items", "#2">>, "obj") @@ At(<<"items", "#2", "err">>, "txt")
Many == ListOf(Item1, Item2)
ManyMore == ListOf(Item1 @@ At(<<"items", "#1", "size">>, "one"), Error2)
NoItems == At(<<>>, "obj") @@ At(<<"items">>, "arr")

TableRows == At(<<>>, "arr") @@ Item(<<"#1">>, "txt")
Receipt == At(<<>>, "obj") @@ At(<<"ok">>, "yes")

MCBodies ==
  [id \in {GetId, ListId, RowsId, PayId} |->
     CASE id = GetId -> <<One, OneMore, [OneLess EXCEPT ![<<"name">>] = "nil"], None>>
       [] id = ListId -> <<Many, ManyMore, NoItems>>
       [] id = RowsId -> <<TableRows, [TableRows EXCEPT ![<<"#1", "id">>] = "nil"], None>>
       [] OTHER -> <<Receipt>>]

-----------------------------------------------------------------------------
(* Documents. *)
Scalar(name, required) == [name |-> name, kind |-> "scalar", of |-> <<"text">>, required |-> required]
Whole(name, kind) == [name |-> name, kind |-> kind, of |-> <<"Customer">>, required |-> TRUE]

Cap(id, effect, output) ==
  [id |-> id, provider |-> "crm", effect |-> effect, tokens |-> {}, lifecycle |-> None,
   description |-> "d", input |-> {Scalar("key", TRUE)}, output |-> output]

Get == Cap(GetId, "read", {Whole("customer", "resource")})
List == Cap(ListId, "read", {Whole("customers", "collection")})
Rows == Cap(RowsId, "read", {Whole("customers", "collection")})
Pay == Cap(PayId, "write", {})

Rest == [type |-> "rest", sql |-> None]
Sql == [type |-> "sql", sql |-> [readOnly |-> TRUE, params |-> <<"key">>, placeholders |-> {1}, dsnFromEnv |-> TRUE]]

Mapped(name) == [name |-> name, path |-> <<name>>, loose |-> FALSE]
Response(collection, onError) ==
  [resource |-> <<"Customer">>, collection |-> collection,
   map |-> {Mapped("id"), Mapped("name")}, onError |-> onError]

Contract(json, fixture) ==
  [fingerprint |-> fingerprintShape(json), shape |-> describeShape(json), fixture |-> fixture]

Binding(id, connector, response, contract) ==
  [capabilityId |-> id, connector |-> connector, response |-> response, extract |-> None,
   contract |-> contract, blocks |-> TRUE]

WhenErr == [errorResource |-> <<"Oops">>, when |-> [path |-> <<"err">>, test |-> "exists"], map |-> {}]

BindGet == Binding(GetId, Rest, Response(None, None), Contract(One, 1))
BindList == Binding(ListId, Rest, Response(<<"items", "[*]">>, WhenErr), Contract(Many, 2))
BindRows == Binding(RowsId, Sql, Response(<<"[*]">>, None), Contract(TableRows, 3))
BindPay == Binding(PayId, Rest, None, Contract(Receipt, 4))

Resource(name, fields) == [name |-> name, fields |-> fields, blocks |-> TRUE]
Customers == Resource(Customer, {Scalar("id", TRUE), Scalar("name", FALSE)})
Errors == Resource(Oops, {Scalar("err", TRUE)})
Others == Resource(Other, {Scalar("id", TRUE)})

Guard(allow, deny) ==
  [id |-> "guard", scope |-> "capability", capabilityId |-> ListId, provider |-> None,
   allow |-> allow, deny |-> deny, rateLimit |-> [max |-> 1, window |-> 1], constrained |-> FALSE]

Directory(capability, binding, resource, policy) ==
  [disk |-> [caps |-> [providers |-> {"crm"}, capabilities |-> {c.id : c \in Docs(capability)}],
             capability |-> capability, binding |-> binding, resource |-> resource, policy |-> policy],
   fixtures |-> [f \in 1..4 |->
                   [request |-> TRUE, nonEmpty |-> f = 2, negative |-> "tenant", identity |-> TRUE]]]

MCManifests ==
  {Directory(<<>>, <<>>, <<>>, <<>>),
   Directory(<<Get>>, <<BindGet>>, <<Customers>>, <<>>),
   Directory(<<List>>, <<BindList>>, <<Customers, Errors>>, <<Guard({}, {bob})>>),
   Directory(<<Rows, Pay>>, <<BindRows, BindPay>>, <<Customers>>, <<>>),
   Directory(<<Get>>, <<BindGet>>, <<Others, Customers>>, <<>>)}

-----------------------------------------------------------------------------
(* What the author may save. *)
Save(part, at, doc) == [part |-> part, at |-> at, doc |-> doc]
Fixture == [request |-> TRUE, nonEmpty |-> TRUE, negative |-> "tenant", identity |-> TRUE]

MCAuthorEdits ==
  {Save("policy", 1, Guard({ana}, {})), Save("policy", 1, [Guard({}, {}) EXCEPT !.capabilityId = GetId]),
   Save("policy", 1, [Guard({}, {}) EXCEPT !.rateLimit.window = 0]),
   Save("capability", 1, [Get EXCEPT !.lifecycle = "retired", !.provider = "crm"]),
   Save("capability", 1, [Get EXCEPT !.output = @ \cup {Scalar("note", FALSE)}]),
   Save("capability", 1, [Get EXCEPT !.output = {Scalar("note", FALSE)}]),
   Save("binding", 1, [BindGet EXCEPT !.response.map = @ \cup {Mapped("city")}]),
   Save("binding", 1, [BindGet EXCEPT !.contract.shape = None]),
   Save("resource", 1, Torn),
   Save("fixture", 1, [Fixture EXCEPT !.request = FALSE]),
   Save("fixture", 3, [Fixture EXCEPT !.negative = "none"]),
   Save("fixture", 3, [Fixture EXCEPT !.identity = FALSE]),
   Save("fixture", 2, Torn)}

-----------------------------------------------------------------------------
(* Tools of a host that embeds its own IR, two of one id among them. *)
Bare(id) == [id |-> id, lifecycle |-> "stable", connector |-> Rest]
MCHandWritten ==
  {<<Bare(Dotted("a", "b")), Bare(<<"a", "_", "b">>), Bare(<<"c">>)>>,
   <<Bare(<<"c">>), Bare(Dotted("a", "b")), Bare(<<"c">>)>>,
   <<Bare(<<"a", ".", "b", "_", "c">>), Bare(<<"a", "_", "b", ".", "c">>), Bare(<<"a", ".", "b", ".", "c">>)>>}
=============================================================================
