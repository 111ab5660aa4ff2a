--------------------------- MODULE ListingProofs ---------------------------
(***************************************************************************)
(* Proofs about the two readings, for every set of providers and models,   *)
(* every canonical form of their names, and any number of writes and       *)
(* failed queries.                                                         *)
(***************************************************************************)
EXTENDS Listing, FiniteSetTheorems, TLAPS

-----------------------------------------------------------------------------
(***************************************************************************)
(* What the reader has in hand.                                            *)
(***************************************************************************)

\* What is known of a model that is looked up: nothing has its name yet, and
\* what is found for it has the name that its name is canonicalised to.
LookupInv ==
  phase = "owners" =>
    /\ kind = "models" /\ ~Seen(model)
    /\ \A pm \in found \cup owners :
         pm \in Providers \X Models /\ Canonical[pm[2]] = Canonical[Canonical[model]]

TableInv ==
  /\ trusted \subseteq Providers /\ offers \subseteq Pairs /\ live \subseteq offers
  /\ faults \in Nat /\ todo \subseteq Providers
  /\ phase \in {"providers", "provider", "model", "owners", "done", "failed"}
  /\ always \subseteq Servable /\ Servable \subseteq was

ReadInv == TableInv /\ LookupInv

\* As long as no tier changes, whatever is in hand was servable.
WasInv ==
  ~retiered =>
    /\ todo \subseteq trusted
    /\ phase \in {"model", "owners"} => cur \in trusted
    /\ phase = "owners" =>
         /\ owners \subseteq was
         /\ \A pm \in found : pm \in Eligible /\ pm[1] \in trusted => pm \in was

UniqueInv ==
  /\ OneEntryPerName
  /\ kind = "status" => \A e \in list : \E pm \in Eligible : e = Entry(pm[2], {pm})

-----------------------------------------------------------------------------
(***************************************************************************)
(* What is not missed.                                                     *)
(***************************************************************************)

\* The reading has the pair still before it.
Pending(pm) ==
  \/ pm[1] \in todo
  \/ /\ phase \in {"model", "owners"} /\ pm[1] = cur
     /\ pm[2] \in mods \/ (phase = "owners" /\ Canonical[model] = Canonical[pm[2]])

\* The pairs of a name that were servable all the time, and their providers.
Same(name) == {pm \in always : Canonical[pm[2]] = name}
Missed(name) == {pm \in Same(name) : ~Pending(pm)}
Ones(pms) == {pm[1] : pm \in pms}

Named(name) == \E e \in list : e.id = name

\* As long as a name is not listed, each provider it has been missed for has cost
\* a query of its own: before the model, at the model, or at the look-up of owners.
MissedInv(name) ==
  phase \in {"provider", "model", "owners", "done"} /\ ~Named(name) =>
    /\ Cardinality(Ones(Missed(name))) <= faults
    /\ phase = "owners" /\ Canonical[model] = name =>
         Cardinality(Ones(Same(name) \ (found \cup owners))) <= faults

\* Without a failure whoever has the name is found by the one query for it.
CompleteInv(name) ==
  faults = 0 =>
    /\ phase = "owners" /\ Canonical[model] = name => Same(name) \subseteq found \cup owners
    /\ \A e \in list : e.id = name => Ones(Same(name)) \subseteq e.owners

StatusInv ==
  faults = 0 /\ phase \in {"provider", "model", "done"} =>
    \A pm \in always : Pending(pm) \/ \E e \in list : e.id = pm[2] /\ pm[1] \in e.owners

SteadyInv ==
  /\ kind \in {"models", "status"} /\ (phase = "done" => todo = {})
  /\ kind = "models" => \A name \in Names :
       Canonical[name] = name => MissedInv(name) /\ CompleteInv(name)
  /\ kind = "status" => StatusInv

-----------------------------------------------------------------------------
(***************************************************************************)
(* The inductive invariant, part by part.                                  *)
(***************************************************************************)

LEMMA PairsAreTyped ==
  ASSUME NEW pm \in Eligible
  PROVE  pm \in Providers \X Models /\ pm = <<pm[1], pm[2]>>
BY PairAssumption

LEMMA TableStep == TableInv /\ [Next]_vars => TableInv'
<1> SUFFICES ASSUME TableInv, [Next]_vars PROVE TableInv'
  OBVIOUS
<1>1. CASE ListProviders \/ TakeProvider
  BY <1>1 DEF ListProviders, TakeProvider, TableInv, Servable, tables, history, Goto, Fault
<1>2. CASE ListFails \/ EndProvider \/ SkipModel \/ QueryModel \/ Answer
  BY <1>2 DEF ListFails, EndProvider, SkipModel, QueryModel, Answer, TableInv, Servable,
              tables, history, reader, Goto, Fault
<1>3. CASE LookUpOwner \/ EndModel \/ StatusModel
  BY <1>3 DEF LookUpOwner, EndModel, StatusModel, TableInv, Servable, tables, history,
              reader, Goto, Fault
<1>4. CASE EditTier \/ UpsertProviderModel \/ Verdict
  <2>1. trusted' \subseteq Providers /\ offers' \subseteq Pairs /\ live' \subseteq offers'
    BY <1>4 DEF EditTier, UpsertProviderModel, Verdict, TableInv
  <2>2. UNCHANGED <<faults, phase, todo>>
        /\ was' = was \cup Servable' /\ always' = always \cap Servable'
    BY <1>4 DEF EditTier, UpsertProviderModel, Verdict, Move, reader
  <2> QED BY <2>1, <2>2 DEF TableInv
<1>5. CASE UNCHANGED vars
  BY <1>5 DEF vars, tables, history, reader, TableInv, Servable
<1> QED BY <1>1, <1>2, <1>3, <1>4, <1>5 DEF Next, ReaderStep

\* A query for the verdicts of a model finds pairs of its name.
LEMMA FoundByName ==
  ASSUME TableInv, NEW m \in Models, NEW pm \in VerifiedModels(Canonical[m])
  PROVE  pm \in Providers \X Models /\ Canonical[pm[2]] = Canonical[Canonical[m]]
BY PairAssumption DEF VerifiedModels, TableInv

LEMMA LookupStep == TableInv /\ LookupInv /\ [Next]_vars => LookupInv'
<1> SUFFICES ASSUME TableInv, LookupInv, [Next]_vars, phase' = "owners" PROVE LookupInv'
  BY DEF LookupInv
<1>1. CASE QueryModel
  <2>1. PICK m \in mods : /\ ~Skips(m) /\ model' = m
                          /\ found' = VerifiedModels(Canonical[m])
    BY <1>1 DEF QueryModel
  <2>2. kind' = "models" /\ owners' = {} /\ list' = list
    BY <1>1 DEF QueryModel
  <2>3. ~Seen(m) /\ <<cur, m>> \in Eligible
    BY <1>1, <2>1 DEF QueryModel, Skips
  <2>4. m \in Models
    BY <2>3, PairsAreTyped
  <2>5. \A pm \in found' \cup owners' :
          pm \in Providers \X Models /\ Canonical[pm[2]] = Canonical[Canonical[m]]
    BY <2>1, <2>2, <2>4, FoundByName
  <2> QED BY <2>1, <2>2, <2>3, <2>5 DEF LookupInv, Seen
<1>2. CASE LookUpOwner
  <2>1. UNCHANGED <<kind, model, list>> /\ phase = "owners"
        /\ found' \cup owners' \subseteq found \cup owners
    BY <1>2 DEF LookUpOwner
  <2> QED BY <2>1 DEF LookupInv, Seen
<1>3. CASE EditTier \/ UpsertProviderModel \/ Verdict \/ UNCHANGED vars
  BY <1>3 DEF EditTier, UpsertProviderModel, Verdict, Move, reader, vars, LookupInv, Seen
<1>4. CASE ReaderStep /\ ~QueryModel /\ ~LookUpOwner
  BY <1>4 DEF ReaderStep, ListProviders, ListFails, TakeProvider, EndProvider, SkipModel,
              EndModel, StatusModel, Answer, Goto, Fault
<1> QED BY <1>1, <1>2, <1>3, <1>4 DEF Next

\* Every reachable state is one in which the reader knows what it needs to.
LEMMA ReadAlways == Spec => []ReadInv
<1>1. Init => ReadInv
  BY PairAssumption DEF Init, ReadInv, TableInv, LookupInv, Servable
<1>2. ReadInv /\ [Next]_vars => ReadInv'
  BY TableStep, LookupStep DEF ReadInv
<1> QED BY <1>1, <1>2, PTL DEF Spec

-----------------------------------------------------------------------------
(***************************************************************************)
(* Nothing is listed that was never servable.                              *)
(***************************************************************************)

\* What is verified now, for a provider that is trusted now, was servable.
LEMMA VerifiedWasServable ==
  ASSUME TableInv, NEW pm \in offers \cap live, pm \in Eligible, pm[1] \in trusted
  PROVE  pm \in was
BY DEF TableInv, Servable

\* A write between two queries leaves what is in hand, and forgets nothing.
LEMMA MoveKeepsWas ==
  ASSUME WasInv, EditTier \/ UpsertProviderModel \/ Verdict
  PROVE  WasInv'
<1>1. UNCHANGED <<kind, phase, todo, cur, found, owners, list>> /\ was \subseteq was'
  BY DEF EditTier, UpsertProviderModel, Verdict, Move, reader
<1>2. ~retiered' => ~retiered /\ trusted' = trusted
  BY DEF EditTier, UpsertProviderModel, Verdict
<1>3. ListedWasServable => (~retiered' => ListedWasServable')
  BY <1>1, <1>2 DEF ListedWasServable
<1> QED BY <1>1, <1>2, <1>3 DEF WasInv

\* An entry made from owners that were servable says nothing else.
LEMMA NewEntry ==
  ASSUME ReadInv, owners \subseteq was, phase = "owners",
         NEW p \in Entry(Canonical[model], owners).owners
  PROVE  \E pm \in was : pm[1] = p /\ Canonical[pm[2]] = Canonical[Canonical[model]]
<1>1. PICK pm \in owners : p = pm[1]
  BY DEF Entry
<1>2. Canonical[pm[2]] = Canonical[Canonical[model]]
  BY <1>1 DEF ReadInv, LookupInv
<1> QED BY <1>1, <1>2

LEMMA WasStep == ReadInv /\ WasInv /\ ListedWasServable /\ [Next]_vars
                   => WasInv' /\ ListedWasServable'
<1> SUFFICES ASSUME ReadInv, WasInv, ListedWasServable, [Next]_vars
             PROVE  WasInv' /\ ListedWasServable'
  OBVIOUS
<1>1. CASE EditTier \/ UpsertProviderModel \/ Verdict
  <2>1. UNCHANGED <<kind, list>> /\ was \subseteq was' /\ (~retiered' => ~retiered)
    BY <1>1 DEF EditTier, UpsertProviderModel, Verdict, Move, reader
  <2>2. ListedWasServable'
    BY <2>1 DEF ListedWasServable
  <2> QED BY <1>1, <2>2, MoveKeepsWas
<1>2. CASE ListProviders \/ ListFails \/ EndProvider \/ Answer \/ TakeProvider \/ SkipModel
  <2>1. UNCHANGED <<trusted, retiered, was, kind, list>>
    BY <1>2 DEF ListProviders, ListFails, EndProvider, Answer, TakeProvider, SkipModel,
                tables, history, reader
  <2>2. ListedWasServable'
    BY <2>1 DEF ListedWasServable
  <2>3. WasInv'
    BY <1>2, <2>1 DEF ListProviders, ListFails, EndProvider, Answer, TakeProvider, SkipModel,
                      reader, WasInv, Goto
  <2> QED BY <2>2, <2>3
<1>3. CASE QueryModel
  <2>1. UNCHANGED <<trusted, retiered, was, kind, list, todo, cur>> /\ phase = "model"
        /\ owners' = {} /\ found' \subseteq offers \cap live
    BY <1>3 DEF QueryModel, tables, history, VerifiedModels
  <2>2. \A pm \in found' : pm \in Eligible /\ pm[1] \in trusted => pm \in was
    BY <2>1, VerifiedWasServable DEF ReadInv
  <2>3. ListedWasServable'
    BY <2>1 DEF ListedWasServable
  <2> QED BY <2>1, <2>2, <2>3 DEF WasInv
<1>4. CASE LookUpOwner
  <2>1. UNCHANGED <<trusted, retiered, was, kind, list, todo, cur, phase>> /\ phase = "owners"
    BY <1>4 DEF LookUpOwner, tables, history
  <2>2. PICK pm \in found :
          /\ found' = found \ {pm}
          /\ \/ owners' = IF pm[1] \in trusted /\ pm \in Eligible THEN owners \cup {pm} ELSE owners
             \/ UNCHANGED owners
    BY <1>4 DEF LookUpOwner
  <2>3. ~retiered => owners' \subseteq was
    BY <2>1, <2>2 DEF WasInv
  <2>4. ListedWasServable'
    BY <2>1 DEF ListedWasServable
  <2> QED BY <2>1, <2>2, <2>3, <2>4 DEF WasInv
<1>5. CASE EndModel
  <2>1. /\ UNCHANGED <<trusted, retiered, was, kind, todo, cur>> /\ phase = "owners"
        /\ phase' = "model" /\ owners' = {}
        /\ list' = IF owners = {} THEN list ELSE list \cup {Entry(Canonical[model], owners)}
    BY <1>5 DEF EndModel, tables, history, Goto
  <2>2. kind = "models"
    BY <2>1 DEF ReadInv, LookupInv
  <2>3. ASSUME ~retiered, NEW p \in Entry(Canonical[model], owners).owners
        PROVE  \E pm \in was : pm[1] = p /\ Canonical[pm[2]] = Canonical[Canonical[model]]
    BY <2>1, <2>3, NewEntry DEF WasInv
  <2>4. Entry(Canonical[model], owners).id = Canonical[model]
    BY DEF Entry
  <2>5. ListedWasServable'
    BY <2>1, <2>2, <2>3, <2>4 DEF ListedWasServable
  <2>6. WasInv'
    BY <2>1 DEF WasInv
  <2> QED BY <2>5, <2>6
<1>6. CASE StatusModel
  <2>1. /\ UNCHANGED <<trusted, retiered, was, kind, todo, cur, phase, found, owners>>
        /\ phase = "model" /\ kind = "status"
    BY <1>6 DEF StatusModel, tables, history
  <2>2. PICK m \in mods :
          /\ <<cur, m>> \in Eligible
          /\ list' = IF <<cur, m>> \in live THEN list \cup {Entry(m, {<<cur, m>>})} ELSE list
    BY <1>6 DEF StatusModel, Skips
  <2>3. ~retiered /\ <<cur, m>> \in live => <<cur, m>> \in was
    BY <2>1, <2>2, VerifiedWasServable DEF WasInv, ReadInv, TableInv
  <2>4. Entry(m, {<<cur, m>>}).id = m /\ Entry(m, {<<cur, m>>}).owners = {cur}
    BY DEF Entry
  <2>5. ASSUME ~retiered, NEW e \in list', NEW p \in e.owners
        PROVE  \E pm \in was : pm[1] = p /\ pm[2] = e.id
    <3>1. CASE e \in list
      BY <2>1, <2>5, <3>1 DEF ListedWasServable
    <3>2. CASE e \notin list
      <4>1. e = Entry(m, {<<cur, m>>}) /\ <<cur, m>> \in was
        BY <2>2, <2>3, <2>5, <3>2
      <4>2. p = <<cur, m>>[1] /\ e.id = <<cur, m>>[2]
        BY <2>4, <2>5, <4>1
      <4> QED BY <4>1, <4>2, Zenon
    <3> QED BY <3>1, <3>2
  <2>6. ListedWasServable'
    BY <2>1, <2>5 DEF ListedWasServable
  <2>7. WasInv'
    BY <2>1 DEF WasInv
  <2> QED BY <2>6, <2>7
<1>7. CASE UNCHANGED vars
  BY <1>7 DEF vars, tables, history, reader, WasInv, ListedWasServable
<1> QED BY <1>1, <1>2, <1>3, <1>4, <1>5, <1>6, <1>7 DEF Next, ReaderStep

\* Nothing is listed for a provider, or shown as verified, that was not servable at
\* some moment of the reading, whatever the sweeper, the fetcher and the clock write
\* between the queries, unless the tier of a provider is changed.
THEOREM NothingDeadIsListed == Spec => []ListedWasServable
<1>1. Init => WasInv /\ ListedWasServable
  BY DEF Init, WasInv, ListedWasServable
<1> QED BY <1>1, ReadAlways, WasStep, PTL DEF Spec

-----------------------------------------------------------------------------
(***************************************************************************)
(* Nothing is listed twice.                                                *)
(***************************************************************************)

LEMMA UniqueStep == ReadInv /\ UniqueInv /\ [Next]_vars => UniqueInv'
<1> SUFFICES ASSUME ReadInv, UniqueInv, [Next]_vars PROVE UniqueInv'
  OBVIOUS
<1>1. CASE EndModel
  <2>1. kind' = kind /\ kind = "models" /\ ~Seen(model)
    BY <1>1 DEF EndModel, ReadInv, LookupInv
  <2>2. list' = IF owners = {} THEN list ELSE list \cup {Entry(Canonical[model], owners)}
    BY <1>1 DEF EndModel
  <2>3. \A e \in list : e.id # Entry(Canonical[model], owners).id
    BY <2>1 DEF Seen, Entry
  <2> QED BY <2>1, <2>2, <2>3 DEF UniqueInv, OneEntryPerName
<1>2. CASE StatusModel
  <2>1. kind' = kind /\ kind = "status"
    BY <1>2 DEF StatusModel
  <2>2. PICK m \in mods :
          /\ <<cur, m>> \in Eligible
          /\ list' = IF <<cur, m>> \in live THEN list \cup {Entry(m, {<<cur, m>>})} ELSE list
    BY <1>2 DEF StatusModel, Skips
  <2>3. \A e \in list' : \E pm \in Eligible : e = Entry(pm[2], {pm})
    BY <2>1, <2>2 DEF UniqueInv
  <2>4. ASSUME NEW pm \in Eligible, NEW qm \in Eligible,
               Entry(pm[2], {pm}).id = Entry(qm[2], {qm}).id,
               Entry(pm[2], {pm}).owners = Entry(qm[2], {qm}).owners
        PROVE  pm = qm
    BY <2>4, PairsAreTyped DEF Entry
  <2>5. ASSUME NEW e \in list', NEW f \in list', e.id = f.id, e.owners = f.owners
        PROVE  e = f
    <3>1. PICK pm \in Eligible : e = Entry(pm[2], {pm})
      BY <2>3
    <3>2. PICK qm \in Eligible : f = Entry(qm[2], {qm})
      BY <2>3
    <3> QED BY <2>4, <2>5, <3>1, <3>2, Zenon
  <2>6. OneEntryPerName'
    BY <2>1, <2>5 DEF OneEntryPerName
  <2> QED BY <2>1, <2>3, <2>6 DEF UniqueInv
<1>3. CASE UNCHANGED <<kind, list>>
  BY <1>3 DEF UniqueInv, OneEntryPerName
<1>4. CASE EditTier \/ UpsertProviderModel \/ Verdict \/ UNCHANGED vars
  BY <1>3, <1>4 DEF EditTier, UpsertProviderModel, Verdict, Move, reader, vars
<1>5. CASE ReaderStep /\ ~EndModel /\ ~StatusModel
  BY <1>3, <1>5 DEF ReaderStep, ListProviders, ListFails, TakeProvider, EndProvider,
                    SkipModel, QueryModel, LookUpOwner, Answer, reader
<1> QED BY <1>1, <1>2, <1>4, <1>5 DEF Next

\* A name is listed once, however many providers and spellings have it and whatever
\* is written while they are gone through.
THEOREM NamesAreListedOnce == Spec => []OneEntryPerName
<1>1. Init => UniqueInv
  BY DEF Init, UniqueInv, OneEntryPerName
<1>2. UniqueInv => OneEntryPerName
  BY DEF UniqueInv
<1> QED BY <1>1, <1>2, ReadAlways, UniqueStep, PTL DEF Spec

-----------------------------------------------------------------------------
(***************************************************************************)
(* Nothing that is there all the time is missed.                           *)
(***************************************************************************)

LEMMA OnesAreFinite ==
  ASSUME NEW T \in SUBSET (Providers \X Models)
  PROVE  IsFiniteSet(Ones(T)) /\ Cardinality(Ones(T)) \in Nat
<1>1. Ones(T) \in SUBSET Providers
  BY DEF Ones
<1> QED BY <1>1, FS_Subset, FS_CardinalityType, FiniteAssumption

LEMMA NoOnes == Cardinality(Ones({})) = 0
<1>1. Ones({}) = {}
  BY DEF Ones
<1> QED BY <1>1, FS_EmptySet

\* Fewer pairs have no more providers.
LEMMA FewerOnes ==
  ASSUME NEW T \in SUBSET (Providers \X Models), NEW S \in SUBSET T
  PROVE  Cardinality(Ones(S)) <= Cardinality(Ones(T))
<1>1. Ones(S) \in SUBSET Ones(T)
  BY DEF Ones
<1> QED BY <1>1, OnesAreFinite, FS_Subset

\* Pairs of one provider more have at most one provider more.
LEMMA OneMore ==
  ASSUME NEW T \in SUBSET (Providers \X Models), NEW S \in SUBSET (Providers \X Models),
         NEW p, \A pm \in S : pm \in T \/ pm[1] = p
  PROVE  Cardinality(Ones(S)) <= Cardinality(Ones(T)) + 1
<1>1. Ones(S) \in SUBSET (Ones(T) \cup {p})
  BY DEF Ones
<1>2. /\ IsFiniteSet(Ones(T) \cup {p})
      /\ Cardinality(Ones(T) \cup {p}) <= Cardinality(Ones(T)) + 1
  BY OnesAreFinite, FS_AddElement
<1>3. Cardinality(Ones(S)) <= Cardinality(Ones(T) \cup {p})
  BY <1>1, <1>2, FS_Subset
<1> QED BY <1>2, <1>3, OnesAreFinite, FS_CardinalityType

\* What is servable all the time is servable now.
LEMMA AlwaysIsServable ==
  ASSUME TableInv, NEW pm \in always
  PROVE  /\ pm \in offers \cap live \cap Eligible /\ pm[1] \in trusted
         /\ pm \in Providers \X Models /\ pm = <<pm[1], pm[2]>>
BY PairsAreTyped DEF TableInv, Servable

LEMMA SameIsTyped ==
  ASSUME TableInv, NEW name
  PROVE  Same(name) \in SUBSET (Providers \X Models) /\ Missed(name) \in SUBSET Same(name)
BY AlwaysIsServable DEF Same, Missed

\* Where nothing is missed that was not missed before, no query need have failed.
LEMMA NoneMissed ==
  ASSUME TableInv, TableInv', NEW name, Missed(name)' \subseteq Missed(name), faults' >= faults,
         Cardinality(Ones(Missed(name))) <= faults
  PROVE  Cardinality(Ones(Missed(name)))' <= faults'
<1>1. Missed(name) \in SUBSET (Providers \X Models)
  BY SameIsTyped
<1>2. Cardinality(Ones(Missed(name)')) <= Cardinality(Ones(Missed(name)))
  BY <1>1, FewerOnes
<1>3. Missed(name)' \in SUBSET (Providers \X Models)
  BY <1>1
<1>4. Cardinality(Ones(Missed(name)')) \in Nat /\ Cardinality(Ones(Missed(name))) \in Nat
  BY <1>1, <1>3, OnesAreFinite
<1>5. Ones(Missed(name))' = Ones(Missed(name)')
  BY DEF Ones
<1> QED BY <1>2, <1>4, <1>5 DEF TableInv

\* And where it is missed for one provider more, one query has.
LEMMA OneMissed ==
  ASSUME TableInv, TableInv', NEW name, NEW p, faults' = faults + 1,
         \A pm \in Missed(name)' : pm \in Missed(name) \/ pm[1] = p,
         Cardinality(Ones(Missed(name))) <= faults
  PROVE  Cardinality(Ones(Missed(name)))' <= faults'
<1>1. Missed(name) \in SUBSET (Providers \X Models)
  BY SameIsTyped
<1>2. Missed(name)' \in SUBSET (Providers \X Models)
  BY PairAssumption DEF Missed, Same, TableInv, Servable
<1>3. Cardinality(Ones(Missed(name)')) <= Cardinality(Ones(Missed(name))) + 1
  BY <1>1, <1>2, OneMore
<1>4. Cardinality(Ones(Missed(name)')) \in Nat /\ Cardinality(Ones(Missed(name))) \in Nat
  BY <1>1, <1>2, OnesAreFinite
<1>5. Ones(Missed(name))' = Ones(Missed(name)')
  BY DEF Ones
<1> QED BY <1>3, <1>4, <1>5 DEF TableInv

\* What a write between two queries leaves: fewer pairs, and no other progress.
LEMMA MoveMissesNone ==
  ASSUME NEW name, EditTier \/ UpsertProviderModel \/ Verdict
  PROVE  /\ Same(name)' \subseteq Same(name) /\ Missed(name)' \subseteq Missed(name)
         /\ always' \subseteq always
         /\ UNCHANGED <<faults, kind, phase, reader>>
         /\ \A pm : Pending(pm)' = Pending(pm)
<1>1. UNCHANGED <<faults, kind, phase, reader>> /\ always' \subseteq always
  BY DEF EditTier, UpsertProviderModel, Verdict, Move
<1>2. \A pm : Pending(pm)' = Pending(pm)
  BY <1>1 DEF Pending, reader
<1> QED BY <1>1, <1>2 DEF Same, Missed

\* A failed query before a look-up misses the name for one provider at most, and
\* any other step before it for none.
LEMMA VisitStep ==
  ASSUME ReadInv, TableInv', kind = "models", NEW name \in Names, Canonical[name] = name,
         MissedInv(name), ~Named(name),
         \/ ListProviders \/ TakeProvider \/ EndProvider \/ SkipModel \/ QueryModel \/ Answer
  PROVE  Cardinality(Ones(Missed(name)))' <= faults'
<1>t. TableInv /\ always' = always /\ Same(name)' = Same(name)
  BY DEF ListProviders, TakeProvider, EndProvider, SkipModel, QueryModel, Answer, history,
         ReadInv, Same
<1>1. CASE ListProviders
  <2>1. ASSUME NEW pm \in Same(name)
        PROVE  Pending(pm)'
    BY <1>t, <1>1, <2>1, AlwaysIsServable DEF ListProviders, Pending, Same
  <2>2. Missed(name)' = {}
    BY <1>t, <2>1 DEF Missed
  <2>3. Ones(Missed(name))' = Ones({})
    BY <2>2 DEF Ones
  <2> QED BY <2>3, NoOnes DEF TableInv
<1> DEFINE Passes == \A pm \in Same(name) : Pending(pm) => Pending(pm)'
           Loses(p) == \A pm \in Same(name) : Pending(pm) => Pending(pm)' \/ pm[1] = p
<1>a. ASSUME Passes, faults' >= faults, phase \in {"provider", "model"}
      PROVE  Cardinality(Ones(Missed(name)))' <= faults'
  <2>1. Missed(name)' \subseteq Missed(name)
    BY <1>t, <1>a DEF Missed
  <2> QED BY <1>t, <1>a, <2>1, NoneMissed DEF MissedInv
<1>b. ASSUME NEW p, Loses(p), faults' = faults + 1, phase \in {"provider", "model"}
      PROVE  Cardinality(Ones(Missed(name)))' <= faults'
  <2>1. \A pm \in Missed(name)' : pm \in Missed(name) \/ pm[1] = p
    BY <1>t, <1>b DEF Missed
  <2> QED BY <1>t, <1>b, <2>1, OneMissed DEF MissedInv
<1>2. CASE TakeProvider
  <2>1. PICK p \in todo :
          /\ todo' = todo \ {p} /\ cur' = p
          /\ \/ mods' = {m \in Models : <<p, m>> \in offers} /\ UNCHANGED faults
             \/ mods' = {} /\ Fault
    BY <1>2 DEF TakeProvider
  <2>2. phase = "provider" /\ phase' = "model"
    BY <1>2 DEF TakeProvider, Goto
  <2>3. CASE mods' = {m \in Models : <<p, m>> \in offers} /\ UNCHANGED faults
    <3>1. Passes
      BY <1>t, <2>1, <2>2, <2>3, AlwaysIsServable DEF Pending, Same
    <3> QED BY <1>t, <1>a, <2>2, <2>3, <3>1 DEF TableInv
  <2>4. CASE Fault
    <3>1. Loses(p)
      BY <2>1, <2>2 DEF Pending
    <3> QED BY <1>b, <2>2, <2>4, <3>1 DEF Fault
  <2> QED BY <2>1, <2>3, <2>4
<1>3. CASE EndProvider \/ Answer
  <2>1. Passes
    BY <1>3 DEF EndProvider, Answer, Goto, reader, Pending
  <2> QED BY <1>t, <1>3, <1>a, <2>1 DEF EndProvider, Answer, TableInv
<1>4. CASE SkipModel
  <2>1. PICK m \in mods :
          /\ mods' = mods \ {m}
          /\ \/ Skips(m) /\ UNCHANGED faults
             \/ ~Skips(m) /\ Fault
    BY <1>4 DEF SkipModel
  <2>2. phase = "model" /\ UNCHANGED <<phase, todo, cur, model>>
    BY <1>4 DEF SkipModel
  <2>3. CASE Skips(m) /\ UNCHANGED faults
    <3>1. ASSUME NEW pm \in Same(name)
          PROVE  pm # <<cur, m>>
      <4>1. pm \in Eligible /\ Canonical[pm[2]] = name
        BY <1>t, AlwaysIsServable DEF Same
      <4> QED BY <2>3, <4>1 DEF Skips, Seen, Named
    <3>2. Passes
      BY <1>t, <2>1, <2>2, <3>1, AlwaysIsServable DEF Pending, Same
    <3> QED BY <1>t, <1>a, <2>2, <2>3, <3>2 DEF TableInv
  <2>4. CASE Fault
    <3>1. Loses(cur)
      BY <2>2 DEF Pending
    <3> QED BY <1>b, <2>2, <2>4, <3>1 DEF Fault
  <2> QED BY <2>1, <2>3, <2>4
<1>5. CASE QueryModel
  <2>1. PICK m \in mods : mods' = mods \ {m} /\ model' = m
    BY <1>5 DEF QueryModel
  <2>2. phase = "model" /\ phase' = "owners" /\ UNCHANGED <<todo, cur, faults>>
    BY <1>5 DEF QueryModel, Goto
  <2>3. Passes
    BY <2>1, <2>2 DEF Pending
  <2> QED BY <1>t, <1>a, <2>2, <2>3 DEF TableInv
<1> QED BY <1>1, <1>2, <1>3, <1>4, <1>5

\* What the query for a name finds has every pair of the name that is servable.
LEMMA QueryFindsSame ==
  ASSUME TableInv, NEW name \in Names, Canonical[name] = name, QueryModel,
         Canonical[model'] = name
  PROVE  Same(name)' \subseteq found' /\ phase' = "owners" /\ faults' = faults
<1>1. PICK m \in mods : model' = m /\ found' = VerifiedModels(Canonical[m])
  BY DEF QueryModel
<1>2. \A pm \in Same(name) : pm \in VerifiedModels(Canonical[m])
  BY <1>1, AlwaysIsServable DEF Same, VerifiedModels
<1> QED BY <1>1, <1>2 DEF QueryModel, Goto, history, Same

\* A look-up loses a pair that is servable only when it fails, and then no other.
LEMMA LookUpLosesOne ==
  ASSUME TableInv, NEW name, LookUpOwner
  PROVE  /\ phase = "owners"
         /\ UNCHANGED <<kind, phase, todo, cur, mods, model, list, always>>
         /\ \/ /\ faults' = faults
               /\ Same(name)' \ (found' \cup owners') \subseteq Same(name) \ (found \cup owners)
            \/ /\ faults' = faults + 1
               /\ \E pm \in found : Same(name)' \ (found' \cup owners')
                                      \subseteq (Same(name) \ (found \cup owners)) \cup {pm}
<1>1. PICK pm \in found :
        /\ found' = found \ {pm}
        /\ \/ /\ owners' = IF pm[1] \in trusted /\ pm \in Eligible THEN owners \cup {pm} ELSE owners
              /\ UNCHANGED faults
           \/ Fault /\ UNCHANGED owners
  BY DEF LookUpOwner
<1>2. UNCHANGED <<kind, phase, todo, cur, mods, model, list, always>> /\ phase = "owners"
  BY DEF LookUpOwner, history
<1>3. pm \in Same(name) => pm[1] \in trusted /\ pm \in Eligible
  BY AlwaysIsServable DEF Same
<1>4. Same(name)' = Same(name)
  BY <1>2 DEF Same
<1> QED BY <1>1, <1>2, <1>3, <1>4 DEF Fault

LEMMA OwnersStep ==
  ASSUME ReadInv, TableInv', kind = "models", NEW name \in Names, Canonical[name] = name,
         MissedInv(name), ~Named(name), LookUpOwner
  PROVE  MissedInv(name)'
<1>t. TableInv
  BY DEF ReadInv
<1>1. /\ phase = "owners" /\ faults' >= faults
      /\ UNCHANGED <<kind, phase, todo, cur, mods, model, list, always>>
  BY <1>t, LookUpLosesOne DEF TableInv
<1>2. Missed(name)' \subseteq Missed(name)
  BY <1>1 DEF Missed, Pending, Same
<1>3. Cardinality(Ones(Missed(name)))' <= faults'
  BY <1>t, <1>1, <1>2, NoneMissed DEF MissedInv
<1>4. ASSUME Canonical[model] = name
      PROVE  Cardinality(Ones(Same(name) \ (found \cup owners)))' <= faults'
  <2> DEFINE T == Same(name) \ (found \cup owners)
             S == Same(name)' \ (found' \cup owners')
  <2>1. T \in SUBSET (Providers \X Models) /\ Cardinality(Ones(T)) <= faults
    BY <1>t, <1>1, <1>4, SameIsTyped DEF MissedInv
  <2>2. S \in SUBSET (Providers \X Models)
    BY <1>t, <1>1, SameIsTyped DEF Same
  <2>3. Cardinality(Ones(T)) \in Nat /\ Cardinality(Ones(S)) \in Nat
    BY <2>1, <2>2, OnesAreFinite
  <2>4. CASE faults' = faults /\ S \subseteq T
    <3>1. Cardinality(Ones(S)) <= Cardinality(Ones(T))
      BY <2>1, <2>4, FewerOnes
    <3>2. Cardinality(Ones(S)) <= faults'
      BY <1>t, <2>1, <2>3, <2>4, <3>1 DEF TableInv
    <3> QED BY <3>2 DEF Ones
  <2>5. CASE faults' = faults + 1 /\ \E pm \in found : S \subseteq T \cup {pm}
    <3>1. PICK pm \in found : S \subseteq T \cup {pm}
      BY <2>5
    <3>2. \A q \in S : q \in T \/ q[1] = pm[1]
      BY <3>1
    <3>3. Cardinality(Ones(S)) <= Cardinality(Ones(T)) + 1
      BY <2>1, <2>2, <3>2, OneMore
    <3>4. Cardinality(Ones(S)) <= faults'
      BY <1>t, <2>1, <2>3, <2>5, <3>3 DEF TableInv
    <3> QED BY <3>4 DEF Ones
  <2> QED BY <1>t, <2>4, <2>5, LookUpLosesOne
<1> QED BY <1>1, <1>3, <1>4 DEF MissedInv

LEMMA EndStep ==
  ASSUME ReadInv, TableInv', kind = "models", NEW name \in Names, Canonical[name] = name,
         MissedInv(name), ~Named(name)', ~Named(name), EndModel
  PROVE  Cardinality(Ones(Missed(name)))' <= faults'
<1>t. TableInv
  BY DEF ReadInv
<1>1. /\ phase = "owners" /\ phase' = "model" /\ found = {}
      /\ UNCHANGED <<faults, todo, cur, mods, model, always>>
  BY DEF EndModel, Goto, history
<1>2. CASE Canonical[model] # name
  <2>1. Missed(name)' \subseteq Missed(name)
    BY <1>1, <1>2 DEF Missed, Pending, Same
  <2> QED BY <1>t, <1>1, <2>1, NoneMissed DEF MissedInv, TableInv
<1>3. CASE Canonical[model] = name
  <2>1. owners = {}
    <3>1. owners # {} => Entry(Canonical[model], owners) \in list'
      BY DEF EndModel
    <3>2. Entry(Canonical[model], owners).id = Canonical[model]
      BY DEF Entry
    <3> QED BY <1>3, <3>1, <3>2, Zenon DEF Named
  <2>2. Same(name) \ (found \cup owners) = Same(name)
    BY <1>1, <2>1
  <2>3. Cardinality(Ones(Same(name))) <= faults
    BY <1>1, <1>3, <2>2 DEF MissedInv
  <2>4. Same(name) \in SUBSET (Providers \X Models)
    BY <1>t, SameIsTyped
  <2>5. Missed(name)' \in SUBSET Same(name)
    BY <1>1 DEF Missed, Same
  <2>6. Cardinality(Ones(Missed(name)')) <= Cardinality(Ones(Same(name)))
    BY <2>4, <2>5, FewerOnes
  <2>7. Cardinality(Ones(Missed(name)')) \in Nat /\ Cardinality(Ones(Same(name))) \in Nat
    BY <2>4, <2>5, OnesAreFinite
  <2>8. Cardinality(Ones(Missed(name)')) <= faults'
    BY <1>t, <1>1, <2>3, <2>6, <2>7 DEF TableInv
  <2> QED BY <2>8 DEF Ones
<1> QED BY <1>2, <1>3

LEMMA MissedStep ==
  ASSUME ReadInv, TableInv', kind = "models", NEW name \in Names, Canonical[name] = name,
         MissedInv(name), [Next]_vars
  PROVE  MissedInv(name)'
<1>t. TableInv
  BY DEF ReadInv
<1> SUFFICES ASSUME phase' \in {"provider", "model", "owners", "done"}, ~Named(name)'
             PROVE  /\ Cardinality(Ones(Missed(name)))' <= faults'
                    /\ phase' = "owners" /\ Canonical[model'] = name =>
                         Cardinality(Ones(Same(name) \ (found \cup owners)))' <= faults'
  BY DEF MissedInv
<1>1. CASE ListProviders \/ TakeProvider \/ EndProvider \/ SkipModel \/ Answer
  <2>1. list' = list /\ phase' # "owners"
    BY <1>1 DEF ListProviders, TakeProvider, EndProvider, SkipModel, Answer, Goto, reader
  <2>2. ~Named(name)
    BY <2>1 DEF Named
  <2> QED BY <1>1, <2>1, <2>2, VisitStep
<1>2. CASE QueryModel
  <2>1. list' = list
    BY <1>2 DEF QueryModel
  <2>2. ~Named(name)
    BY <2>1 DEF Named
  <2>3. Cardinality(Ones(Missed(name)))' <= faults'
    BY <1>2, <2>2, VisitStep
  <2>4. ASSUME Canonical[model'] = name
        PROVE  Cardinality(Ones(Same(name) \ (found \cup owners)))' <= faults'
    <3>1. Same(name)' \ (found' \cup owners') = {}
      BY <1>t, <1>2, <2>4, QueryFindsSame
    <3>2. Ones(Same(name) \ (found \cup owners))' = Ones({})
      BY <3>1 DEF Ones
    <3> QED BY <3>2, NoOnes DEF TableInv
  <2> QED BY <2>3, <2>4
<1>3. CASE LookUpOwner
  <2>1. list' = list
    BY <1>3 DEF LookUpOwner
  <2>2. ~Named(name)
    BY <2>1 DEF Named
  <2>3. MissedInv(name)'
    BY <1>3, <2>2, OwnersStep
  <2> QED BY <2>3 DEF MissedInv
<1>4. CASE EndModel
  <2>1. list \subseteq list' /\ phase' # "owners"
    BY <1>4 DEF EndModel, Goto
  <2>2. ~Named(name)
    BY <2>1 DEF Named
  <2> QED BY <1>4, <2>1, <2>2, EndStep
<1>5. CASE EditTier \/ UpsertProviderModel \/ Verdict \/ UNCHANGED vars
  <2>1. /\ Missed(name)' \subseteq Missed(name) /\ Same(name)' \subseteq Same(name)
        /\ UNCHANGED <<faults, phase, model, found, owners, list>>
    <3>1. CASE UNCHANGED vars
      BY <3>1 DEF vars, reader, history, Missed, Same, Pending
    <3> QED BY <1>5, <3>1, MoveMissesNone DEF reader
  <2>2. /\ Cardinality(Ones(Missed(name))) <= faults
        /\ phase = "owners" /\ Canonical[model] = name =>
             Cardinality(Ones(Same(name) \ (found \cup owners))) <= faults
    BY <2>1 DEF MissedInv, Named
  <2>3. Cardinality(Ones(Missed(name)))' <= faults'
    BY <1>t, <2>1, <2>2, NoneMissed DEF TableInv
  <2>4. ASSUME phase' = "owners", Canonical[model'] = name
        PROVE  Cardinality(Ones(Same(name) \ (found \cup owners)))' <= faults'
    <3> DEFINE T == Same(name) \ (found \cup owners)
               S == Same(name)' \ (found' \cup owners')
    <3>1. S \in SUBSET T /\ Cardinality(Ones(T)) <= faults
      BY <2>1, <2>2, <2>4
    <3>2. T \in SUBSET (Providers \X Models)
      BY <1>t, SameIsTyped
    <3>3. Cardinality(Ones(S)) <= Cardinality(Ones(T))
      BY <3>1, <3>2, FewerOnes
    <3>4. S \in SUBSET (Providers \X Models)
      BY <3>1, <3>2
    <3>5. Cardinality(Ones(T)) \in Nat /\ Cardinality(Ones(S)) \in Nat
      BY <3>2, <3>4, OnesAreFinite
    <3>6. Cardinality(Ones(S)) <= faults'
      BY <1>t, <2>1, <3>1, <3>3, <3>5 DEF TableInv
    <3> QED BY <3>6 DEF Ones
  <2> QED BY <2>3, <2>4
<1>6. CASE ListFails \/ StatusModel
  BY <1>6 DEF ListFails, StatusModel, Goto
<1> QED BY <1>1, <1>2, <1>3, <1>4, <1>5, <1>6 DEF Next, ReaderStep

LEMMA CompleteStep ==
  ASSUME ReadInv, TableInv', kind = "models", NEW name \in Names, Canonical[name] = name,
         CompleteInv(name), [Next]_vars
  PROVE  CompleteInv(name)'
<1>t. TableInv
  BY DEF ReadInv
<1>1. CASE QueryModel
  <2>1. UNCHANGED <<faults, list, always>>
    BY <1>1 DEF QueryModel, history
  <2>2. faults' = 0 => \A e \in list' : e.id = name => Ones(Same(name))' \subseteq e.owners
    BY <2>1 DEF CompleteInv, Ones, Same
  <2>3. Canonical[model'] = name => Same(name)' \subseteq found' \cup owners'
    BY <1>t, <1>1, QueryFindsSame
  <2> QED BY <2>2, <2>3 DEF CompleteInv
<1>2. CASE LookUpOwner
  <2>1. phase = "owners" /\ UNCHANGED <<phase, model, list, always>>
        /\ (faults' = 0 => faults = 0
              /\ Same(name)' \ (found' \cup owners') \subseteq Same(name) \ (found \cup owners))
    BY <1>t, <1>2, LookUpLosesOne DEF TableInv
  <2>2. faults' = 0 => \A e \in list' : e.id = name => Ones(Same(name))' \subseteq e.owners
    BY <2>1 DEF CompleteInv, Ones, Same
  <2>3. faults' = 0 /\ Canonical[model'] = name => Same(name)' \subseteq found' \cup owners'
    BY <2>1 DEF CompleteInv
  <2> QED BY <2>2, <2>3 DEF CompleteInv
<1>3. CASE EndModel
  <2>1. /\ phase = "owners" /\ phase' = "model" /\ found = {} /\ UNCHANGED <<faults, always>>
        /\ list' = IF owners = {} THEN list ELSE list \cup {Entry(Canonical[model], owners)}
    BY <1>3 DEF EndModel, Goto, history
  <2>2. ASSUME faults = 0, NEW e \in list', e.id = name
        PROVE  Ones(Same(name)) \subseteq e.owners
    <3>1. CASE e \in list
      BY <2>2, <3>1 DEF CompleteInv
    <3>2. CASE e \notin list
      <4>1. e = Entry(Canonical[model], owners)
        BY <2>1, <2>2, <3>2
      <4>2. e.id = Canonical[model] /\ e.owners = Ones(owners)
        BY <4>1 DEF Entry, Ones
      <4>3. Same(name) \subseteq owners
        BY <2>1, <2>2, <4>2 DEF CompleteInv
      <4> QED BY <4>2, <4>3 DEF Ones
    <3> QED BY <3>1, <3>2
  <2>3. Ones(Same(name))' = Ones(Same(name))
    BY <2>1 DEF Ones, Same
  <2> QED BY <2>1, <2>2, <2>3 DEF CompleteInv
<1>4. CASE EditTier \/ UpsertProviderModel \/ Verdict
  <2>1. Same(name)' \subseteq Same(name) /\ UNCHANGED <<faults, phase, model, found, owners, list>>
    BY <1>4, MoveMissesNone DEF reader
  <2>2. Ones(Same(name))' \subseteq Ones(Same(name))
    BY <2>1 DEF Ones
  <2> QED BY <2>1, <2>2 DEF CompleteInv
<1>5. CASE ListProviders \/ ListFails \/ TakeProvider \/ EndProvider \/ SkipModel \/ Answer
  <2>1. UNCHANGED <<list, always>> /\ phase' # "owners" /\ (faults' = 0 => faults = 0)
    BY <1>t, <1>5 DEF ListProviders, ListFails, TakeProvider, EndProvider, SkipModel, Answer,
                      Goto, reader, history, Fault, TableInv
  <2> QED BY <2>1 DEF CompleteInv, Ones, Same
<1>6. CASE UNCHANGED vars
  BY <1>6 DEF vars, reader, history, CompleteInv, Ones, Same
<1>7. CASE StatusModel
  BY <1>7 DEF StatusModel
<1> QED BY <1>1, <1>2, <1>3, <1>4, <1>5, <1>6, <1>7 DEF Next, ReaderStep

\* Without a failure the status document has every pair that it has passed.
LEMMA StatusStep ==
  ASSUME ReadInv, kind = "status", StatusInv, [Next]_vars
  PROVE  StatusInv'
<1>t. TableInv /\ phase # "owners"
  BY DEF ReadInv, LookupInv
<1> DEFINE Shown(pm) == \E e \in list : e.id = pm[2] /\ pm[1] \in e.owners
<1> SUFFICES ASSUME faults' = 0, phase' \in {"provider", "model", "done"}, NEW pm \in always'
             PROVE  Pending(pm)' \/ Shown(pm)'
  BY DEF StatusInv
<1>1. CASE ListProviders
  <2>1. pm \in always /\ phase' = "provider" /\ todo' = trusted
    BY <1>1 DEF ListProviders, history, Goto
  <2> QED BY <1>t, <2>1, AlwaysIsServable DEF Pending
<1>2. ASSUME phase \in {"provider", "model"}, faults = 0, pm \in always, list \subseteq list',
             Pending(pm) => Pending(pm)' \/ Shown(pm)'
      PROVE  Pending(pm)' \/ Shown(pm)'
  <2>1. Pending(pm) \/ Shown(pm)
    BY <1>2 DEF StatusInv
  <2> QED BY <1>2, <2>1
<1>3. CASE TakeProvider
  <2>1. PICK p \in todo : /\ todo' = todo \ {p} /\ cur' = p
                          /\ \/ mods' = {m \in Models : <<p, m>> \in offers}
                             \/ Fault
    BY <1>3 DEF TakeProvider
  <2>2. phase = "provider" /\ phase' = "model" /\ UNCHANGED <<list, always>>
    BY <1>3 DEF TakeProvider, Goto, history
  <2>3. ~Fault /\ faults = 0
    BY <1>t, <1>3 DEF Fault, TakeProvider, TableInv
  <2>4. Pending(pm) => Pending(pm)'
    BY <1>t, <2>1, <2>2, <2>3, AlwaysIsServable DEF Pending
  <2> QED BY <1>2, <2>2, <2>3, <2>4
<1>4. CASE EndProvider \/ Answer
  BY <1>2, <1>4 DEF EndProvider, Answer, Goto, reader, history, Pending
<1>5. CASE SkipModel
  <2>1. PICK m \in mods : mods' = mods \ {m} /\ ((Skips(m) /\ UNCHANGED faults) \/ Fault)
    BY <1>5 DEF SkipModel
  <2>2. phase = "model" /\ UNCHANGED <<phase, todo, cur, model, list, always>>
    BY <1>5 DEF SkipModel, history
  <2>3. Skips(m) /\ faults = 0
    BY <1>t, <2>1 DEF Fault, TableInv
  <2>4. pm # <<cur, m>>
    BY <1>t, <2>2, <2>3, AlwaysIsServable DEF Skips
  <2>5. Pending(pm) => Pending(pm)'
    BY <1>t, <2>1, <2>2, <2>4, AlwaysIsServable DEF Pending
  <2> QED BY <1>2, <2>2, <2>3, <2>5
<1>6. CASE StatusModel
  <2>1. PICK m \in mods :
          /\ mods' = mods \ {m}
          /\ list' = IF <<cur, m>> \in live THEN list \cup {Entry(m, {<<cur, m>>})} ELSE list
    BY <1>6 DEF StatusModel
  <2>2. phase = "model" /\ UNCHANGED <<phase, todo, cur, model, faults, always>>
    BY <1>6 DEF StatusModel, history
  <2>3. ASSUME pm = <<cur, m>>
        PROVE  Shown(pm)'
    <3>1. Entry(m, {<<cur, m>>}) \in list'
      BY <1>t, <2>1, <2>2, <2>3, AlwaysIsServable
    <3>2. Entry(m, {<<cur, m>>}).id = pm[2] /\ pm[1] \in Entry(m, {<<cur, m>>}).owners
      BY <2>3 DEF Entry
    <3> QED BY <3>1, <3>2, Zenon
  <2>4. pm # <<cur, m>> /\ Pending(pm) => Pending(pm)'
    BY <1>t, <2>1, <2>2, AlwaysIsServable DEF Pending
  <2> QED BY <1>2, <2>1, <2>2, <2>3, <2>4
<1>7. CASE EditTier \/ UpsertProviderModel \/ Verdict
  <2>1. /\ always' \subseteq always /\ UNCHANGED <<faults, phase, list>>
        /\ Pending(pm)' = Pending(pm)
    BY <1>7, MoveMissesNone DEF reader
  <2> QED BY <2>1 DEF StatusInv
<1>8. CASE UNCHANGED vars
  BY <1>8 DEF vars, reader, history, StatusInv, Pending
<1>9. CASE ListFails \/ QueryModel \/ LookUpOwner \/ EndModel
  BY <1>t, <1>9 DEF ListFails, QueryModel, LookUpOwner, EndModel, Goto
<1> QED BY <1>1, <1>3, <1>4, <1>5, <1>6, <1>7, <1>8, <1>9 DEF Next, ReaderStep

LEMMA SteadyStep == ReadInv /\ ReadInv' /\ SteadyInv /\ [Next]_vars => SteadyInv'
<1> SUFFICES ASSUME ReadInv, ReadInv', SteadyInv, [Next]_vars PROVE SteadyInv'
  OBVIOUS
<1>1. kind' = kind
  BY DEF Next, ReaderStep, ListProviders, ListFails, TakeProvider, EndProvider, SkipModel,
         QueryModel, LookUpOwner, EndModel, StatusModel, Answer, EditTier,
         UpsertProviderModel, Verdict, Move, vars
<1>2. phase' = "done" => todo' = {}
  <2>1. CASE UNCHANGED <<phase, todo>>
    BY <2>1 DEF SteadyInv
  <2>2. CASE EditTier \/ UpsertProviderModel \/ Verdict \/ UNCHANGED vars
    BY <2>1, <2>2 DEF EditTier, UpsertProviderModel, Verdict, Move, reader, vars
  <2>3. CASE ReaderStep
    BY <2>3 DEF ReaderStep, ListProviders, ListFails, TakeProvider, EndProvider, SkipModel,
         QueryModel, LookUpOwner, EndModel, StatusModel, Answer, Goto, reader, SteadyInv
  <2> QED BY <2>2, <2>3 DEF Next
<1>3. ASSUME kind = "models", NEW name \in Names, Canonical[name] = name
      PROVE  MissedInv(name)' /\ CompleteInv(name)'
  <2>1. MissedInv(name) /\ CompleteInv(name)
    BY <1>3 DEF SteadyInv
  <2> QED BY <1>3, <2>1, MissedStep, CompleteStep DEF ReadInv
<1>4. kind = "status" => StatusInv'
  BY StatusStep DEF SteadyInv
<1> QED BY <1>1, <1>2, <1>3, <1>4 DEF SteadyInv

LEMMA SteadyEnd == ReadInv /\ SteadyInv => SteadyIsListed
<1> SUFFICES ASSUME ReadInv, SteadyInv, phase = "done", NEW pm \in always,
                    Canonical[Canonical[pm[2]]] = Canonical[pm[2]]
             PROVE  /\ faults = 0 => \E e \in list : Says(e, pm)
                    /\ kind = "models"
                         /\ Cardinality(Ones(Same(Canonical[pm[2]]))) > faults =>
                         \E e \in list : e.id = Canonical[pm[2]]
  BY DEF SteadyIsListed, Ones, Same
<1> DEFINE name == Canonical[pm[2]]
<1>1. pm \in Providers \X Models /\ name \in Names
  BY AlwaysIsServable, CanonicalAssumption DEF ReadInv
<1>2. \A q : ~Pending(q)
  BY DEF SteadyInv, Pending
<1>3. Missed(name) = Same(name) /\ pm \in Same(name)
  BY <1>2 DEF Missed, Same
<1>4. Cardinality(Ones(Same(name))) \in Nat /\ Cardinality(Ones(Same(name))) # 0 /\ faults \in Nat
  <2>1. Same(name) \in SUBSET (Providers \X Models)
    BY SameIsTyped DEF ReadInv
  <2>2. pm[1] \in Ones(Same(name))
    BY <1>3 DEF Ones
  <2> QED BY <2>1, <2>2, OnesAreFinite, FS_EmptySet DEF ReadInv, TableInv
<1>5. CASE kind = "models"
  <2>1. MissedInv(name) /\ CompleteInv(name)
    BY <1>1, <1>5 DEF SteadyInv
  <2>2. Cardinality(Ones(Same(name))) > faults => Named(name)
    BY <1>3, <1>4, <2>1 DEF MissedInv
  <2>3. ASSUME faults = 0
        PROVE  \E e \in list : Says(e, pm)
    <3>1. PICK e \in list : e.id = name
      BY <1>4, <2>2, <2>3 DEF Named
    <3>2. pm[1] \in e.owners
      BY <1>3, <2>1, <2>3, <3>1 DEF CompleteInv, Ones
    <3> QED BY <1>5, <3>1, <3>2 DEF Says
  <2> QED BY <2>2, <2>3 DEF Named
<1>6. CASE kind = "status"
  <2>1. faults = 0 => \E e \in list : e.id = pm[2] /\ pm[1] \in e.owners
    BY <1>2, <1>6 DEF SteadyInv, StatusInv
  <2> QED BY <1>6, <2>1 DEF Says
<1>7. kind \in {"models", "status"}
  BY DEF SteadyInv
<1> QED BY <1>5, <1>6, <1>7

\* A model that was servable all the time, from more providers than queries have
\* failed, is in the answer, and when none has failed, with each of its providers:
\* for any number of providers, spellings, writes and failures.
THEOREM SteadyModelsAreListed == Spec => []SteadyIsListed
<1>1. Init => SteadyInv
  BY DEF Init, SteadyInv, MissedInv, CompleteInv, StatusInv
<1> QED BY <1>1, ReadAlways, SteadyStep, SteadyEnd, PTL DEF Spec

=============================================================================
