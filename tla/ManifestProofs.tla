--------------------------- MODULE ManifestProofs ----------------------------
(***************************************************************************)
(* Lemmas about the loader, the validator, the compiler and the index of   *)
(* names that the proofs about the manifest's life and about init rest on. *)
(***************************************************************************)
EXTENDS Compile, ToolRegistry, FiniteSetTheorems, TLAPS

(* Least and greatest elements: what takes the place of an induction here. *)
(* A claim about every prefix of a list holds because the least prefix     *)
(* without it cannot exist.                                                *)
LEMMA LeastOf ==
  ASSUME NEW S \in SUBSET Nat, S # {}
  PROVE  \E i \in S : \A k \in S : i <= k
<1>1. PICK x \in S : \A y \in S : ~(<<y, x>> \in OpToRel(<, Nat))
  BY NatLessThanWellFounded, WFMin
<1>2. \A y \in S : ~(y < x)
  BY <1>1 DEF OpToRel
<1>. QED BY <1>2

LEMMA LatestOf ==
  ASSUME NEW n \in Nat, NEW S \in SUBSET (1..n), S # {}
  PROVE  \E i \in S : \A k \in S : i >= k
<1>. DEFINE Left == {n - i : i \in S}
<1>0. \A i \in S : i \in 1..n /\ n - i \in Nat
  OBVIOUS
<1>1. Left \in SUBSET Nat /\ Left # {}
  BY <1>0
<1>2. PICK m \in Left : \A k \in Left : m <= k
  BY <1>1, LeastOf
<1>3. PICK i \in S : m = n - i
  OBVIOUS
<1>4. ASSUME NEW k \in S PROVE i >= k
  <2>1. n - k \in Left
    OBVIOUS
  <2>2. m <= n - k
    BY <1>2, <2>1
  <2>. QED BY <1>3, <2>2
<1>. QED BY <1>4

(* An image of a finite set is finite. *)
LEMMA ImageIsFinite ==
  ASSUME NEW S, IsFiniteSet(S), NEW f
  PROVE  IsFiniteSet({f[x] : x \in S})
<1>. DEFINE T == {f[x] : x \in S}
            g == [x \in S |-> f[x]]
<1>1. g \in Surjection(S, T)
  BY DEF Surjection
<1>. HIDE DEF g
<1>. QED BY <1>1, FS_Surjection

(* What is absent, and what no schema accepts, is told from every record.  *)
NoneIsNoRecord == \A r, keys : IsRecord(r, keys) => r # None
TornIsNoRecord == \A r, keys : IsRecord(r, keys) => r # Torn

(* A sequence, said without the set of its values. *)
IsList(s) == Len(s) \in Nat /\ IsRecord(s, 1..Len(s))

LEMMA ListLength ==
  ASSUME NEW n \in Nat, NEW f, f = [i \in 1..n |-> f[i]]
  PROVE  Len(f) = n
OBVIOUS

(* A kind of documents of which none is unreadable is loaded as it lies on *)
(* the disk (load.ts): the readable files, counted from the first, are all *)
(* of them.                                                                *)
LEMMA LoadedWhole ==
  ASSUME NEW docs, IsList(docs), \A i \in 1..Len(docs) : docs[i] # Torn
  PROVE  Loaded(docs) = docs
<1>. DEFINE n == Len(docs)
            upto(i) == {j \in 1..n : j <= i}
            file(k) == CHOOSE i \in 1..n : Cardinality(upto(i)) = k
<1>1. n \in Nat /\ Readable(docs) = 1..n
  BY DEF IsList, Readable
<1>2. Cardinality(1..n) = n
  <2>1. 1 \in Int /\ n \in Int
    BY <1>1
  <2>2. Cardinality(1..n) = IF 1 > n THEN 0 ELSE n - 1 + 1
    BY <2>1, FS_Interval, ZenonT(30)
  <2>. QED BY <1>1, <2>2
<1>3. ASSUME NEW i \in 1..n PROVE Cardinality(upto(i)) = i
  <2>1. i \in Nat /\ i >= 1 /\ upto(i) = 1..i
    BY <1>1
  <2>2. 1 \in Int /\ i \in Int
    BY <2>1
  <2>3. Cardinality(1..i) = IF 1 > i THEN 0 ELSE i - 1 + 1
    BY <2>2, FS_Interval, ZenonT(30)
  <2>4. Cardinality(1..i) = i
    BY <2>1, <2>3
  <2>. HIDE DEF upto
  <2>. QED BY <2>1, <2>4
<1>4. ASSUME NEW k \in 1..n PROVE file(k) = k
  BY <1>3
<1>5. Loaded(docs) = [k \in 1..n |-> docs[file(k)]]
  BY <1>1, <1>2 DEF Loaded
<1>6. Loaded(docs) = [k \in 1..n |-> docs[k]]
  BY <1>4, <1>5
<1>. QED BY <1>6 DEF IsList, IsRecord

(* The validator accepts exactly when none of its rules finds anything. *)
LEMMA NothingFound ==
  ASSUME NEW model
  PROVE  validateSemantics(model) = {} <=>
           /\ ~DuplicateIds(model.capability)
           /\ ~HasFaultyProvider(model)
           /\ ~DeclarationsDiffer(model)
           /\ ~BindsNothing(model)
           /\ ~NotImplemented(model)
           /\ ~SqlFaulty(model)
           /\ ~UnknownResource(model)
           /\ ~OutputFaulty(model)
           /\ ~DuplicateIds(model.policy)
           /\ ~PolicyFaulty(model)
<1>. DEFINE checks ==
              {<<"duplicate-capability", DuplicateIds(model.capability)>>,
               <<"provider", HasFaultyProvider(model)>>,
               <<"declarations", DeclarationsDiffer(model)>>,
               <<"binding-without-capability", BindsNothing(model)>>,
               <<"connector-type-not-implemented", NotImplemented(model)>>,
               <<"sql", SqlFaulty(model)>>,
               <<"unknown-resource", UnknownResource(model)>>,
               <<"output", OutputFaulty(model)>>,
               <<"duplicate-policy", DuplicateIds(model.policy)>>,
               <<"policy", PolicyFaulty(model)>>}
<1>1. validateSemantics(model) = {found[1] : found \in {check \in checks : check[2]}}
  BY DEF validateSemantics
<1>2. validateSemantics(model) = {} <=> \A check \in checks : ~check[2]
  BY <1>1
<1>. QED BY <1>2

(* The response of a capability is the one of its last binding that has    *)
(* one (compile.ts); likewise the others.                                  *)
LEMMA LastResponse ==
  ASSUME NEW model, IsList(model.binding), NEW id
  PROVE  LET part == LastPart(model, id, LAMBDA b : b.response)
         IN IF part = None THEN \A b \in Docs(model.binding) : b.capabilityId = id => b.response = None
            ELSE \E b \in Docs(model.binding) : b.capabilityId = id /\ b.response = part
<1>. DEFINE n == Len(model.binding)
            at == {i \in 1..n : model.binding[i].capabilityId = id /\ model.binding[i].response # None}
            part == LastPart(model, id, LAMBDA b : b.response)
<1>1. part = IF at = {} THEN None ELSE model.binding[CHOOSE i \in at : \A k \in at : i >= k].response
  BY DEF LastPart
<1>2. at # {} => \E i \in at : \A k \in at : i >= k
  BY LatestOf DEF IsList
<1>. HIDE DEF part
<1>3. IF part = None THEN at = {}
      ELSE \E i \in 1..n : model.binding[i].capabilityId = id /\ model.binding[i].response = part
  BY <1>1, <1>2
<1>. QED BY <1>3 DEF Docs, part

LEMMA LastExtract ==
  ASSUME NEW model, IsList(model.binding), NEW id
  PROVE  LET part == LastPart(model, id, LAMBDA b : b.extract)
         IN IF part = None THEN \A b \in Docs(model.binding) : b.capabilityId = id => b.extract = None
            ELSE \E b \in Docs(model.binding) : b.capabilityId = id /\ b.extract = part
<1>. DEFINE n == Len(model.binding)
            at == {i \in 1..n : model.binding[i].capabilityId = id /\ model.binding[i].extract # None}
            part == LastPart(model, id, LAMBDA b : b.extract)
<1>1. part = IF at = {} THEN None ELSE model.binding[CHOOSE i \in at : \A k \in at : i >= k].extract
  BY DEF LastPart
<1>2. at # {} => \E i \in at : \A k \in at : i >= k
  BY LatestOf DEF IsList
<1>. HIDE DEF part
<1>3. IF part = None THEN at = {}
      ELSE \E i \in 1..n : model.binding[i].capabilityId = id /\ model.binding[i].extract = part
  BY <1>1, <1>2
<1>. QED BY <1>3 DEF Docs, part

LEMMA LastConnector ==
  ASSUME NEW model, IsList(model.binding), NEW id
  PROVE  LET part == LastPart(model, id, LAMBDA b : lowerConnector(b.connector))
         IN IF part = None THEN \A b \in Docs(model.binding) : b.capabilityId = id => lowerConnector(b.connector) = None
            ELSE \E b \in Docs(model.binding) : b.capabilityId = id /\ lowerConnector(b.connector) = part
<1>. DEFINE n == Len(model.binding)
            at == {i \in 1..n : model.binding[i].capabilityId = id /\ lowerConnector(model.binding[i].connector) # None}
            part == LastPart(model, id, LAMBDA b : lowerConnector(b.connector))
<1>1. part = IF at = {} THEN None ELSE lowerConnector(model.binding[CHOOSE i \in at : \A k \in at : i >= k].connector)
  BY DEF LastPart
<1>2. at # {} => \E i \in at : \A k \in at : i >= k
  BY LatestOf DEF IsList
<1>. HIDE DEF part
<1>3. IF part = None THEN at = {}
      ELSE \E i \in 1..n : model.binding[i].capabilityId = id /\ lowerConnector(model.binding[i].connector) = part
  BY <1>1, <1>2
<1>. QED BY <1>3 DEF Docs, part

LEMMA LastContract ==
  ASSUME NEW model, IsList(model.binding), NEW id
  PROVE  LET part == LastPart(model, id, LAMBDA b : b.contract)
         IN IF part = None THEN \A b \in Docs(model.binding) : b.capabilityId = id => b.contract = None
            ELSE \E b \in Docs(model.binding) : b.capabilityId = id /\ b.contract = part
<1>. DEFINE n == Len(model.binding)
            at == {i \in 1..n : model.binding[i].capabilityId = id /\ model.binding[i].contract # None}
            part == LastPart(model, id, LAMBDA b : b.contract)
<1>1. part = IF at = {} THEN None ELSE model.binding[CHOOSE i \in at : \A k \in at : i >= k].contract
  BY DEF LastPart
<1>2. at # {} => \E i \in at : \A k \in at : i >= k
  BY LatestOf DEF IsList
<1>. HIDE DEF part
<1>3. IF part = None THEN at = {}
      ELSE \E i \in 1..n : model.binding[i].capabilityId = id /\ model.binding[i].contract = part
  BY <1>1, <1>2
<1>. QED BY <1>3 DEF Docs, part

(* A tool is compiled from a capability, and its connector and contract    *)
(* are those of a binding of that capability (compile.ts compileTool).     *)
LEMMA ToolParts ==
  ASSUME NEW model, IsList(model.capability), IsList(model.binding), NEW t \in Docs(compile(model).tools)
  PROVE  /\ \E d \in Docs(model.capability) : d.id = t.id
         /\ IF t.connector = None
            THEN \A b \in Docs(model.binding) : b.capabilityId = t.id => lowerConnector(b.connector) = None
            ELSE \E b \in Docs(model.binding) : b.capabilityId = t.id /\ lowerConnector(b.connector) = t.connector
         /\ t.contract # None => \E b \in Docs(model.binding) : b.capabilityId = t.id /\ b.contract # None
<1>. DEFINE n == Len(model.capability)
            tools == compile(model).tools
<1>1. n \in Nat /\ tools = [i \in 1..n |-> compileTool(model.capability[i], model)]
  BY DEF IsList, compile
<1>2. Len(tools) = n
  BY <1>1, ListLength
<1>. HIDE DEF tools
<1>3. PICK i \in 1..n : t = compileTool(model.capability[i], model)
  BY <1>1, <1>2 DEF Docs, tools
<1>. DEFINE part == LastPart(model, t.id, LAMBDA b : lowerConnector(b.connector))
<1>4. /\ t.id = model.capability[i].id
      /\ t.connector = part
      /\ t.contract # None => LastPart(model, t.id, LAMBDA b : b.contract) # None
  BY <1>3 DEF compileTool
<1>5. \E d \in Docs(model.capability) : d.id = t.id
  BY <1>3, <1>4 DEF Docs
<1>6. IF part = None THEN \A b \in Docs(model.binding) : b.capabilityId = t.id => lowerConnector(b.connector) = None
      ELSE \E b \in Docs(model.binding) : b.capabilityId = t.id /\ lowerConnector(b.connector) = part
  BY LastConnector
<1>7. t.contract # None => \E b \in Docs(model.binding) : b.capabilityId = t.id /\ b.contract # None
  BY <1>4, LastContract
<1>. HIDE DEF part
<1>. QED BY <1>4, <1>5, <1>6, <1>7

-----------------------------------------------------------------------------
(* byId finds the last tool of an id. *)
LEMMA LastOfId ==
  ASSUME NEW tools, Len(tools) \in Nat, NEW id
  PROVE  IF \E k \in 1..Len(tools) : tools[k].id = id
         THEN byId(tools, id) \in 1..Len(tools) /\ tools[byId(tools, id)].id = id
         ELSE byId(tools, id) = 0
<1>. DEFINE at == {i \in 1..Len(tools) : tools[i].id = id}
<1>1. at # {} => \E i \in at : \A k \in at : i >= k
  BY LatestOf
<1>2. byId(tools, id) = IF at = {} THEN 0 ELSE CHOOSE i \in at : \A k \in at : i >= k
  BY DEF byId
<1>. QED BY <1>1, <1>2

(* The index of names, after i of the tools. *)
IndexUpTo(tools) ==
  CHOOSE f : f = [i \in 0..Len(tools) |-> IF i = 0 THEN EmptyIndex ELSE AddTool(f[i - 1], tools, i)]

(* The index after each tool exists and is what the loop makes of the one  *)
(* before. The least list without such stages cannot exist.                *)
LEMMA IndexByStep ==
  ASSUME NEW tools, Len(tools) \in Nat
  PROVE  LET upto == IndexUpTo(tools)
         IN /\ upto[0] = EmptyIndex
            /\ \A i \in 1..Len(tools) : upto[i] = AddTool(upto[i - 1], tools, i)
            /\ indexOf(tools) = [upto[Len(tools)] EXCEPT !.invocable =
                                   {nt \in @ : nt.name \notin upto[Len(tools)].ambiguous}]
<1>. DEFINE Stage(m, f) == f = [i \in 0..m |-> IF i = 0 THEN EmptyIndex ELSE AddTool(f[i - 1], tools, i)]
            upto == IndexUpTo(tools)
            Without == {m \in Nat : ~\E f : Stage(m, f)}
<1>1. Without = {}
  <2>1. SUFFICES ASSUME Without # {} PROVE FALSE
    OBVIOUS
  <2>2. PICK m \in Without : \A k \in Without : m <= k
    BY <2>1, LeastOf
  <2>3. CASE m = 0
    <3>. DEFINE g == [i \in 0..0 |-> EmptyIndex]
    <3>1. Stage(0, g)
      OBVIOUS
    <3>. QED BY <2>2, <2>3, <3>1
  <2>4. CASE m # 0
    <3>1. m - 1 \in Nat /\ m - 1 \notin Without
      BY <2>2, <2>4
    <3>2. PICK f : Stage(m - 1, f)
      BY <3>1
    <3>. DEFINE g == [i \in 0..m |-> IF i = 0 THEN EmptyIndex ELSE AddTool(f[i - 1], tools, i)]
    <3>3. ASSUME NEW i \in 0..(m - 1) PROVE f[i] = g[i]
      BY <3>1, <3>2
    <3>4. ASSUME NEW i \in 0..m, i # 0 PROVE f[i - 1] = g[i - 1]
      <4>1. i - 1 \in 0..(m - 1)
        BY <3>1, <3>4
      <4>. HIDE DEF g
      <4>. QED BY <3>3, <4>1
    <3>5. Stage(m, g)
      <4>. DEFINE h == [i \in 0..m |-> IF i = 0 THEN EmptyIndex ELSE AddTool(g[i - 1], tools, i)]
      <4>1. \A i \in 0..m : g[i] = h[i]
        BY <3>4
      <4>2. g = h
        BY <4>1
      <4>. QED BY <4>2
    <3>. QED BY <2>2, <3>5
  <2>. QED BY <2>3, <2>4
<1>2. \E f : Stage(Len(tools), f)
  BY <1>1
<1>3. Stage(Len(tools), upto)
  BY <1>2 DEF IndexUpTo
<1>4. indexOf(tools) = [upto[Len(tools)] EXCEPT !.invocable =
                          {nt \in @ : nt.name \notin upto[Len(tools)].ambiguous}]
  BY DEF indexOf, IndexUpTo
<1>. HIDE DEF upto
<1>5. upto[0] = EmptyIndex /\ \A i \in 1..Len(tools) : upto[i] = AddTool(upto[i - 1], tools, i)
  BY <1>3
<1>. QED BY <1>4, <1>5 DEF upto

(* Who asks for a name, and when a name is nobody's. *)
Bears(tools, name, k) == tools[k].connector # None /\ toolName(tools[k].id) = name

Contested(tools, name, i) ==
  \E j \in 1..i :
    /\ Bears(tools, name, j)
    /\ \/ name # tools[j].id /\ \E k \in 1..Len(tools) : tools[k].id = name
       \/ \E k \in 1..i : Bears(tools, name, k) /\ tools[k].id # tools[j].id

(* What the index holds after i tools: contested names are nobody's, any   *)
(* other name that a tool bears leads to a tool that bears it.             *)
NamesSettled(tools, index, i) ==
  /\ IsRecord(index, {"byName", "ambiguous", "invocable"})
  /\ \A name : name \in index.ambiguous <=> Contested(tools, name, i)
  /\ \A name : name \in DOMAIN index.byName
                <=> ~Contested(tools, name, i) /\ \E j \in 1..i : Bears(tools, name, j)
  /\ \A name \in DOMAIN index.byName : index.byName[name] \in 1..i /\ Bears(tools, name, index.byName[name])
  /\ \A nt \in index.invocable :
       \E j \in 1..i : Bears(tools, nt.name, j) /\ nt = [name |-> nt.name, tool |-> j]
  /\ \A name : \A j \in 1..i :
       Bears(tools, name, j) /\ ~Contested(tools, name, i) => [name |-> name, tool |-> j] \in index.invocable

(* A tool without a connector has no name. *)
LEMMA UnboundSettles ==
  ASSUME NEW tools, Len(tools) \in Nat, NEW i \in 1..Len(tools), NEW old, NamesSettled(tools, old, i - 1),
         tools[i].connector = None
  PROVE  NamesSettled(tools, AddTool(old, tools, i), i)
<1>1. AddTool(old, tools, i) = old
  BY DEF AddTool
<1>2. \A name : \A j \in 1..i : Bears(tools, name, j) => j \in 1..(i - 1)
  BY DEF Bears
<1>3. \A j \in 1..(i - 1) : j \in 1..i
  OBVIOUS
<1>4. \A name : Contested(tools, name, i) <=> Contested(tools, name, i - 1)
  BY <1>2, <1>3 DEF Contested
<1>. QED BY <1>1, <1>2, <1>3, <1>4 DEF NamesSettled

(* A tool with one takes its name, or makes it ambiguous (the loop body of *)
(* the Registry constructor): its name is the id of another, another bears it already, or *)
(* it is ambiguous from before.                                            *)
LEMMA BoundSettles ==
  ASSUME NEW tools, Len(tools) \in Nat, NEW i \in 1..Len(tools), NEW old, NamesSettled(tools, old, i - 1),
         tools[i].connector # None
  PROVE  NamesSettled(tools, AddTool(old, tools, i), i)
<1>. DEFINE name == toolName(tools[i].id)
            owner == byId(tools, name)
            named == IF name \in DOMAIN old.byName THEN old.byName[name] ELSE 0
            owned == name # tools[i].id /\ \E k \in 1..Len(tools) : tools[k].id = name
            other == name \in DOMAIN old.byName /\ tools[old.byName[name]].id # tools[i].id
            new == AddTool(old, tools, i)
<1>1. Bears(tools, name, i) /\ \A n : Bears(tools, n, i) => n = name
  BY DEF Bears
<1>2. /\ i \in 1..i /\ \A j \in 1..(i - 1) : j \in 1..i
      /\ \A j \in 1..i : j = i \/ j \in 1..(i - 1)
  OBVIOUS
<1>3. (owner # 0 /\ tools[owner].id # tools[i].id) <=> owned
  <2>1. 0 \notin 1..Len(tools)
    OBVIOUS
  <2>. HIDE DEF name
  <2>. QED BY <2>1, LastOfId
<1>4. (named # 0 /\ tools[named].id # tools[i].id) <=> other
  <2>1. name \in DOMAIN old.byName => old.byName[name] \in 1..(i - 1)
    BY DEF NamesSettled
  <2>2. 0 \notin 1..(i - 1)
    OBVIOUS
  <2>. QED BY <2>1, <2>2
<1>. HIDE DEF name
<1>5. Contested(tools, name, i) <=> Contested(tools, name, i - 1) \/ owned \/ other
  <2>1. Contested(tools, name, i - 1) => Contested(tools, name, i)
    BY <1>2 DEF Contested
  <2>2. owned => Contested(tools, name, i)
    BY <1>1, <1>2 DEF Contested
  <2>3. other => Contested(tools, name, i)
    <3>1. name \in DOMAIN old.byName =>
            old.byName[name] \in 1..(i - 1) /\ Bears(tools, name, old.byName[name])
      BY DEF NamesSettled
    <3>. QED BY <1>1, <1>2, <3>1 DEF Contested
  <2>4. ASSUME Contested(tools, name, i), ~Contested(tools, name, i - 1), ~owned PROVE other
    <3>1. PICK j \in 1..i, k \in 1..i :
            Bears(tools, name, j) /\ Bears(tools, name, k) /\ tools[j].id # tools[k].id
      BY <1>2, <2>4 DEF Contested
    <3>2. PICK m \in 1..(i - 1) : Bears(tools, name, m) /\ tools[m].id # tools[i].id
      BY <1>2, <2>4, <3>1 DEF Contested
    <3>3. name \in DOMAIN old.byName
      BY <2>4, <3>2 DEF NamesSettled
    <3>4. old.byName[name] \in 1..(i - 1) /\ Bears(tools, name, old.byName[name])
      BY <3>3 DEF NamesSettled
    <3>5. tools[old.byName[name]].id = tools[m].id
      BY <2>4, <3>2, <3>4 DEF Contested
    <3>. QED BY <3>2, <3>3, <3>5
  <2>. QED BY <2>1, <2>2, <2>3, <2>4
<1>6. ASSUME NEW n, n # name
      PROVE  /\ Contested(tools, n, i) <=> Contested(tools, n, i - 1)
             /\ \A j \in 1..i : Bears(tools, n, j) => j \in 1..(i - 1)
  <2>1. \A j \in 1..i : Bears(tools, n, j) => j \in 1..(i - 1)
    BY <1>1, <1>2, <1>6
  <2>. QED BY <1>2, <2>1 DEF Contested
<1>7. DOMAIN old = {"byName", "ambiguous", "invocable"}
  BY DEF NamesSettled, IsRecord
<1>8. name \in old.ambiguous <=> Contested(tools, name, i - 1)
  BY DEF NamesSettled
<1>9. CASE Contested(tools, name, i)
  <2>1. new = [old EXCEPT !.ambiguous = @ \cup {name}, !.byName = [n \in DOMAIN @ \ {name} |-> @[n]]]
    <3>1. \/ name \in old.ambiguous
          \/ owner # 0 /\ tools[owner].id # tools[i].id
          \/ named # 0 /\ tools[named].id # tools[i].id
      BY <1>3, <1>4, <1>5, <1>8, <1>9
    <3>. QED BY <3>1 DEF AddTool, name
  <2>2. /\ IsRecord(new, {"byName", "ambiguous", "invocable"})
        /\ new.ambiguous = old.ambiguous \cup {name}
        /\ new.byName = [n \in DOMAIN old.byName \ {name} |-> old.byName[n]]
        /\ new.invocable = old.invocable
    BY <1>7, <2>1 DEF IsRecord
  <2>. HIDE DEF new
  <2>3. \A n : n \in new.ambiguous <=> Contested(tools, n, i)
    BY <1>6, <1>9, <2>2 DEF NamesSettled
  <2>4. ASSUME NEW n
        PROVE  n \in DOMAIN new.byName <=> ~Contested(tools, n, i) /\ \E j \in 1..i : Bears(tools, n, j)
    <3>1. CASE n = name
      BY <1>9, <2>2, <3>1
    <3>2. CASE n # name
      BY <1>2, <1>6, <2>2, <3>2 DEF NamesSettled
    <3>. QED BY <3>1, <3>2
  <2>5. \A n \in DOMAIN new.byName : new.byName[n] \in 1..i /\ Bears(tools, n, new.byName[n])
    BY <1>2, <2>2 DEF NamesSettled
  <2>6. \A nt \in new.invocable :
          \E j \in 1..i : Bears(tools, nt.name, j) /\ nt = [name |-> nt.name, tool |-> j]
    BY <1>2, <2>2 DEF NamesSettled
  <2>7. ASSUME NEW n, NEW j \in 1..i, Bears(tools, n, j), ~Contested(tools, n, i)
        PROVE  [name |-> n, tool |-> j] \in new.invocable
    <3>1. n # name
      BY <1>9, <2>7
    <3>2. j \in 1..(i - 1) /\ ~Contested(tools, n, i - 1)
      BY <1>6, <2>7, <3>1
    <3>. QED BY <2>2, <2>7, <3>2 DEF NamesSettled
  <2>. QED BY <2>2, <2>3, <2>4, <2>5, <2>6, <2>7 DEF NamesSettled, new
<1>10. CASE ~Contested(tools, name, i)
  <2>. DEFINE byName == [n \in DOMAIN old.byName \cup {name} |-> IF n = name THEN i ELSE old.byName[n]]
  <2>1. new = [old EXCEPT !.byName = [n \in DOMAIN @ \cup {name} |-> IF n = name THEN i ELSE @[n]],
                          !.invocable = @ \cup {[name |-> name, tool |-> i]}]
    <3>1. /\ name \notin old.ambiguous
          /\ ~(owner # 0 /\ tools[owner].id # tools[i].id)
          /\ ~(named # 0 /\ tools[named].id # tools[i].id)
      BY <1>3, <1>4, <1>5, <1>8, <1>10
    <3>. QED BY <3>1 DEF AddTool, name
  <2>2. /\ IsRecord(new, {"byName", "ambiguous", "invocable"})
        /\ new.ambiguous = old.ambiguous
        /\ new.byName = byName
        /\ new.invocable = old.invocable \cup {[name |-> name, tool |-> i]}
    BY <1>7, <2>1 DEF IsRecord
  <2>. HIDE DEF new
  <2>3. ASSUME NEW n PROVE n \in new.ambiguous <=> Contested(tools, n, i)
    <3>1. CASE n = name
      BY <1>5, <1>8, <1>10, <2>2, <3>1
    <3>2. CASE n # name
      BY <1>6, <2>2, <3>2 DEF NamesSettled
    <3>. QED BY <3>1, <3>2
  <2>4. ASSUME NEW n
        PROVE  n \in DOMAIN new.byName <=> ~Contested(tools, n, i) /\ \E j \in 1..i : Bears(tools, n, j)
    <3>1. CASE n = name
      BY <1>1, <1>2, <1>10, <2>2, <3>1
    <3>2. CASE n # name
      BY <1>2, <1>6, <2>2, <3>2 DEF NamesSettled
    <3>. QED BY <3>1, <3>2
  <2>5. ASSUME NEW n \in DOMAIN new.byName
        PROVE  new.byName[n] \in 1..i /\ Bears(tools, n, new.byName[n])
    <3>1. CASE n = name
      BY <1>1, <1>2, <2>2, <3>1
    <3>2. CASE n # name
      <4>1. n \in DOMAIN old.byName /\ new.byName[n] = old.byName[n]
        BY <2>2, <3>2
      <4>. QED BY <1>2, <4>1 DEF NamesSettled
    <3>. QED BY <3>1, <3>2
  <2>6. ASSUME NEW nt \in new.invocable
        PROVE  \E j \in 1..i : Bears(tools, nt.name, j) /\ nt = [name |-> nt.name, tool |-> j]
    <3>1. CASE nt \in old.invocable
      BY <1>2, <3>1 DEF NamesSettled
    <3>2. CASE nt = [name |-> name, tool |-> i]
      BY <1>1, <1>2, <3>2
    <3>. QED BY <2>2, <3>1, <3>2
  <2>7. ASSUME NEW n, NEW j \in 1..i, Bears(tools, n, j), ~Contested(tools, n, i)
        PROVE  [name |-> n, tool |-> j] \in new.invocable
    <3>1. CASE j = i
      BY <1>1, <2>2, <2>7, <3>1
    <3>2. CASE j \in 1..(i - 1)
      <4>1. ~Contested(tools, n, i - 1)
        BY <1>5, <1>6, <2>7
      <4>. QED BY <2>2, <2>7, <3>2, <4>1 DEF NamesSettled
    <3>. QED BY <1>2, <3>1, <3>2
  <2>. QED BY <2>2, <2>3, <2>4, <2>5, <2>6, <2>7 DEF NamesSettled, new
<1>. QED BY <1>9, <1>10

(* So the index is settled after each tool; the first that would leave it  *)
(* otherwise does not exist.                                               *)
LEMMA AllSettled ==
  ASSUME NEW tools, Len(tools) \in Nat
  PROVE  \A i \in 0..Len(tools) : NamesSettled(tools, IndexUpTo(tools)[i], i)
<1>. DEFINE upto == IndexUpTo(tools)
            Unsettled == {i \in 0..Len(tools) : ~NamesSettled(tools, upto[i], i)}
<1>1. NamesSettled(tools, EmptyIndex, 0)
  <2>1. IsRecord(EmptyIndex, {"byName", "ambiguous", "invocable"})
    BY DEF EmptyIndex, IsRecord
  <2>2. EmptyIndex.ambiguous = {} /\ DOMAIN EmptyIndex.byName = {} /\ EmptyIndex.invocable = {}
    BY DEF EmptyIndex
  <2>. QED BY <2>1, <2>2 DEF NamesSettled, Contested
<1>2. SUFFICES ASSUME Unsettled # {} PROVE FALSE
  OBVIOUS
<1>3. PICK i \in Unsettled : \A k \in Unsettled : i <= k
  <2>1. Unsettled \in SUBSET Nat
    OBVIOUS
  <2>. HIDE DEF Unsettled
  <2>. QED BY <1>2, <2>1, LeastOf
<1>4. i # 0
  BY <1>1, <1>3, IndexByStep
<1>5. i \in 1..Len(tools) /\ i - 1 \in 0..Len(tools) /\ i - 1 \notin Unsettled
  BY <1>3, <1>4
<1>6. upto[i] = AddTool(upto[i - 1], tools, i) /\ NamesSettled(tools, upto[i - 1], i - 1)
  BY <1>5, IndexByStep
<1>. HIDE DEF upto
<1>7. NamesSettled(tools, upto[i], i)
  BY <1>5, <1>6, UnboundSettles, BoundSettles
<1>. QED BY <1>3, <1>7

(* What the finished index holds, said without an order of the tools. *)
LEMMA IndexOf ==
  ASSUME NEW tools, Len(tools) \in Nat
  PROVE  LET index == indexOf(tools)
             n == Len(tools)
         IN /\ \A name : name \in index.ambiguous <=> Contested(tools, name, n)
            /\ \A name : (\E j \in 1..n : Bears(tools, name, j)) /\ ~Contested(tools, name, n) =>
                 /\ name \in DOMAIN index.byName
                 /\ index.byName[name] \in 1..n /\ Bears(tools, name, index.byName[name])
            /\ \A nt : nt \in index.invocable <=>
                 \E j \in 1..n : /\ Bears(tools, nt.name, j) /\ nt = [name |-> nt.name, tool |-> j]
                                /\ ~Contested(tools, nt.name, n)
<1>. DEFINE n == Len(tools)
            last == IndexUpTo(tools)[n]
            index == indexOf(tools)
<1>1. NamesSettled(tools, last, n)
  BY AllSettled
<1>2. index = [last EXCEPT !.invocable = {nt \in @ : nt.name \notin last.ambiguous}]
  BY IndexByStep
<1>. HIDE DEF last, index
<1>3. /\ index.ambiguous = last.ambiguous /\ index.byName = last.byName
      /\ index.invocable = {nt \in last.invocable : nt.name \notin last.ambiguous}
  BY <1>1, <1>2 DEF NamesSettled, IsRecord
<1>4. \A name : name \in index.ambiguous <=> Contested(tools, name, n)
  BY <1>1, <1>3 DEF NamesSettled
<1>5. ASSUME NEW name, \E j \in 1..n : Bears(tools, name, j), ~Contested(tools, name, n)
      PROVE  /\ name \in DOMAIN index.byName
             /\ index.byName[name] \in 1..n /\ Bears(tools, name, index.byName[name])
  BY <1>1, <1>3, <1>5 DEF NamesSettled
<1>6. ASSUME NEW nt \in index.invocable
      PROVE  \E j \in 1..n : /\ Bears(tools, nt.name, j) /\ nt = [name |-> nt.name, tool |-> j]
                            /\ ~Contested(tools, nt.name, n)
  BY <1>1, <1>3, <1>4 DEF NamesSettled
<1>7. ASSUME NEW nt, NEW j \in 1..n, Bears(tools, nt.name, j), nt = [name |-> nt.name, tool |-> j],
             ~Contested(tools, nt.name, n)
      PROVE  nt \in index.invocable
  BY <1>1, <1>3, <1>4, <1>7 DEF NamesSettled
<1>. QED BY <1>4, <1>5, <1>6, <1>7 DEF index
=============================================================================
