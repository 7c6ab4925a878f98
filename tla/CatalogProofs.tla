---------------------------- MODULE CatalogProofs ----------------------------
(***************************************************************************)
(* For every number of brokers, callers and creators, whatever they call,  *)
(* wherever they are dropped and whenever their writes land: the objects   *)
(* of a name are one topic, created once and deleted for good; a broker    *)
(* that answered it deleted has forgotten it; its creator's list names it; *)
(* and what its configuration says is what was journalled.                 *)
(*                                                                         *)
(* While there is no tombstone nothing is taken away, neither by a call    *)
(* nor by a write that lands late; there is one for ever after there is    *)
(* one (Grows). So a call may rely on what it saw, up to the tombstone.    *)
(***************************************************************************)
EXTENDS Catalog, TLAPS

Finding == {"find", "find entry", "find id", "find again"}
Past    == {"find entry", "find id", "find again"}
Ended   == {"start", "done"}

(* Where a find comes back to.                                             *)
Returns == {"raced", "evict", "reconcile", "served", "alter", "altered", "list found", "hydrate"}

(* Where a call can be, and what it can be told.                           *)
Words == Ended \cup Finding \cup Returns \cup Writing \cup Deleting
         \cup {"", "tombstone?", "created?", "grant", "race", "race entry", "forget", "revoke", "list", "list empty"}
         \cup {"nothing", "created", "reserved", "exists", "missing", "deleted", "failed", "unknown", "hydrated"}

(* Entries and retentions.                                                 *)
Names == Creators \cup {Nobody, "unset", "?"} \cup {j[c].by : j \in Jobs, c \in Caller}

CallRec  == [pc : Words, ret : Words, entry : Names, gen : Nat]
StoreRec == [topic : Creators \cup {Nobody}, id : BOOLEAN, owner : SUBSET Creators,
             tombstone : Creators \cup {Nobody}, retention : Names]
Lock     == [readers : SUBSET Caller, writer : Caller \cup {Nobody}]
CacheRec == [entry : Names, fresh : BOOLEAN]
WriteRec == [pc : Writing, entry : Names]

TopicTypes ==
    /\ store \in StoreRec /\ cache \in [Broker -> CacheRec]
    /\ gen \in [Broker -> Nat] /\ guards \in [Broker -> Lock]
    /\ grants \in [Broker -> SUBSET Creators] /\ wanted \in Jobs
    /\ call \in [Caller -> CallRec] /\ late \subseteq WriteRec /\ told \in [Caller -> Words]

(* What is being done, a find under way or not.                            *)
Stage(r) == IF r.pc \in Finding THEN r.ret ELSE r.pc

PlaceOK(op, s) ==
    \/ s \in Ended
    \/ op = "create" /\ s \in {"tombstone?", "put owner", "put topic", "put id", "created?",
                               "withdraw", "grant", "race", "race entry", "heal id", "raced"}
    \/ op = "delete" /\ s \in Deleting \cup {"forget", "evict", "revoke", "reconcile"}
    \/ op = "lookup" /\ s = "served"
    \/ op = "alter" /\ s \in {"served", "alter", "put retention", "altered"}
    \/ op = "hydrate" /\ s \in {"list", "list empty", "list found", "hydrate"}

(* The guard a call holds.                                                 *)
LockOK(op, s, c, lock) ==
    /\ op \in Reads /\ s \notin Ended => c \in lock.readers
    /\ op = "alter" /\ s \notin Ended => lock.writer = c
    /\ s \in Deleting \cup {"forget", "evict"} => lock.writer = c

(* What a write, under way or late, may do to the store.                   *)
WriteOK(pc, entry, st) ==
    /\ pc \in {"put owner", "put topic", "put tombstone"} => entry \in Creators
    /\ pc = "put topic" /\ st.tombstone = Nobody => entry \in st.owner
    /\ pc \in {"purge", "withdraw"} => st.tombstone # Nobody

(* What a call may rely on of the store.                                   *)
SeenOK(pc, entry, t, by, st) ==
    /\ pc \in {"tombstone?", "put owner", "put topic", "put id", "created?", "withdraw",
               "grant", "put retention"} => entry = by
    /\ (pc \in {"put id", "created?", "grant"} \/ t = "created") /\ st.tombstone = Nobody => st.topic = by
    /\ (pc \in {"created?", "grant"} \/ t = "created") /\ st.tombstone = Nobody => st.id
    /\ pc \in {"forget", "revoke"} \/ t = "deleted" => st.tombstone # Nobody
    /\ (t # "nothing" => pc = "done") /\ (t = "created" => by \in Creators)

(* What a call at a broker that has forgotten the topic cannot bring back. *)
BlindOK(op, r, g) ==
    /\ op = "create" => r.pc \in {"start", "tombstone?", "done"}
    /\ op = "hydrate" => r.pc \notin Past /\ (r.pc \in {"list found", "hydrate"} => r.entry = Nobody)
    /\ op \in {"lookup", "alter"} /\ r.gen = g =>
           (r.pc \in Past => r.ret # "served") /\ (r.pc = "served" => r.entry = Nobody)

CallOK(c, op, by, r, t, st, lock, g, gone) ==
    /\ r.pc \in Finding => r.ret \in Returns
    /\ PlaceOK(op, Stage(r)) /\ LockOK(op, Stage(r), c, lock)
    /\ WriteOK(r.pc, r.entry, st) /\ SeenOK(r.pc, r.entry, t, by, st)
    /\ r.gen <= g /\ (gone => BlindOK(op, r, g))

(* Some delete at the broker has forgotten the topic there.                *)
IsGone(c) == call[c].pc = "revoke" \/ told[c] = "deleted"
Gone(b) == \E c \in Caller : At(c) = b /\ IsGone(c)

Own(c) == CallOK(c, wanted[c].op, wanted[c].by, call[c], told[c], store, guards[At(c)],
                 gen[At(c)], Gone(At(c)))

StoreOK(st) == st.tombstone = Nobody /\ st.topic # Nobody => st.topic \in st.owner

BrokerOK(b) ==
    /\ guards[b].writer # Nobody => guards[b].readers = {}
    /\ Gone(b) => cache[b].entry = Nobody
    /\ (\E c \in Caller : At(c) = b /\ told[c] = "deleted") => grants[b] = {}

Claims(c) == call[c].pc \in {"put id", "created?", "grant"} \/ told[c] = "created"
Grant(c)  == call[c].pc = "grant" \/ told[c] = "created"

OneCreator ==
    /\ \A c, d \in Caller : Claims(c) /\ Claims(d) /\ store.tombstone = Nobody => c = d
    /\ \A c, d \in Caller : Grant(c) /\ Grant(d) => c = d

CatalogInv ==
    /\ TopicTypes /\ StoreOK(store) /\ OneCreator
    /\ \A c \in Caller : Own(c)
    /\ \A b \in Broker : BrokerOK(b)
    /\ \A w \in late : WriteOK(w.pc, w.entry, store)

(* While there is no tombstone nothing is taken away.                      *)
Grows(s, t) ==
    /\ s.tombstone # Nobody => t.tombstone = s.tombstone
    /\ t.tombstone = Nobody => /\ s.owner \subseteq t.owner
                               /\ s.topic # Nobody => t.topic = s.topic
                               /\ s.id => t.id

-----------------------------------------------------------------------------
(* What is a name.                                                         *)
LEMMA NameKinds ==
    /\ Creators \subseteq Names /\ Nobody \in Names /\ "unset" \in Names /\ "?" \in Names
    /\ \A j \in Jobs, c \in Caller : j[c].by \in Names
<1> DEFINE Bys == {j[c].by : j \in Jobs, c \in Caller}
<1>1. \A j \in Jobs, c \in Caller : j[c].by \in Bys
  OBVIOUS
<1>2. Names = Creators \cup {Nobody, "unset", "?"} \cup Bys
  BY DEF Names
<1> HIDE DEF Bys
<1> QED
  BY <1>1, <1>2

(* They are words.                                                         *)
LEMMA AreWords ==
    /\ {"start", "done", "find", "find entry", "find id", "find again", "raced", "evict", "reconcile"} \subseteq Words
    /\ {"served", "alter", "altered", "list found", "hydrate", "put owner", "put topic", "put id"} \subseteq Words
    /\ {"heal id", "put tombstone", "purge", "withdraw", "put retention", "deleted?", "delete entry"} \subseteq Words
    /\ {"", "tombstone?", "created?", "grant", "race", "race entry", "forget", "revoke", "list"} \subseteq Words
    /\ {"list empty", "nothing", "created", "reserved", "exists", "missing", "deleted", "failed"} \subseteq Words
    /\ {"unknown", "hydrated"} \subseteq Words
BY DEF Words, Ended, Finding, Returns, Writing, Deleting

(* A write that may be made keeps the store's types and takes nothing      *)
(* away while there is no tombstone.                                       *)
LEMMA WrittenGrows ==
    ASSUME store \in StoreRec, StoreOK(store),
           NEW pc \in Writing, NEW e \in Names, WriteOK(pc, e, store)
    PROVE  /\ Written(pc, e) \in StoreRec /\ StoreOK(Written(pc, e))
           /\ Grows(store, Written(pc, e))
<1> USE DEF StoreRec, WriteOK, StoreOK, Grows, PutAbsent
<1>0. Nobody \notin Creators
  BY CatalogAssumption
<1>1. CASE pc = "put owner"
  <2>1. Written(pc, e) = [store EXCEPT !.owner = @ \cup {e}]
    BY <1>1 DEF Written
  <2>2. e \in Creators
    BY <1>1
  <2> QED BY <1>0, <1>1, <2>1, <2>2
<1>2. CASE pc = "put topic"
  <2>1. Written(pc, e) = [store EXCEPT !.topic = IF @ = Nobody THEN e ELSE @]
    BY <1>2 DEF Written
  <2>2. e \in Creators /\ (store.tombstone = Nobody => e \in store.owner)
    BY <1>2
  <2>3. CASE store.topic = Nobody
    <3>1. Written(pc, e) = [store EXCEPT !.topic = e]
      BY <2>1, <2>3
    <3> QED BY <1>0, <2>2, <2>3, <3>1
  <2>4. CASE store.topic # Nobody
    <3>1. Written(pc, e) = store
      BY <2>1, <2>4
    <3> QED BY <3>1
  <2> QED BY <2>3, <2>4
<1>3. CASE pc \in {"put id", "heal id"}
  <2>1. Written(pc, e) = [store EXCEPT !.id = TRUE]
    BY <1>3 DEF Written
  <2> QED BY <1>0, <1>3, <2>1
<1>4. CASE pc = "put tombstone"
  <2>1. Written(pc, e) = [store EXCEPT !.tombstone = IF @ = Nobody THEN e ELSE @]
    BY <1>4 DEF Written
  <2> QED BY <1>0, <1>4, <2>1
<1>5. CASE pc \in {"purge", "withdraw"}
  <2>1. Written(pc, e) = [store EXCEPT !.topic = Nobody, !.id = FALSE, !.retention = "unset",
                                       !.owner = @ \ {e}]
    BY <1>5 DEF Written
  <2>2. "unset" \in Names
    BY NameKinds
  <2> QED BY <1>0, <1>5, <2>1, <2>2
<1>6. CASE pc = "put retention"
  <2>1. Written(pc, e) = [store EXCEPT !.retention = e]
    BY <1>6 DEF Written
  <2> QED BY <1>0, <1>6, <2>1
<1> QED
  BY <1>1, <1>2, <1>3, <1>4, <1>5, <1>6 DEF Writing

(* What may be written still may when the store has grown.                 *)
LEMMA WriteStays ==
    ASSUME NEW pc, NEW e, NEW s \in StoreRec, NEW t \in StoreRec, WriteOK(pc, e, s), Grows(s, t)
    PROVE  WriteOK(pc, e, t)
BY DEF WriteOK, Grows, StoreRec

(* So does what a call relies on.                                          *)
LEMMA SeenStays ==
    ASSUME NEW pc, NEW e, NEW u, NEW by, NEW s \in StoreRec, NEW t \in StoreRec,
           SeenOK(pc, e, u, by, s), Grows(s, t),
           pc \in {"put id", "created?", "grant"} \/ u = "created" => by \in Creators
    PROVE  SeenOK(pc, e, u, by, t)
BY CatalogAssumption DEF SeenOK, Grows, StoreRec

(* The guards of the others are left alone.                                *)
Spares(c, k, l) ==
    \A d \in Caller \ {c} : (d \in k.readers => d \in l.readers) /\ (k.writer = d => l.writer = d)

(* A call is not disturbed by the step of another at its broker.           *)
LEMMA OtherStands ==
    ASSUME NEW c \in Caller, NEW d \in Caller \ {c}, NEW op, NEW by, NEW r \in CallRec, NEW u,
           op \in {"create", "hydrate"} => by \in Creators,
           NEW s \in StoreRec, NEW t \in StoreRec, Grows(s, t),
           NEW k \in Lock, NEW l \in Lock, Spares(c, k, l),
           NEW g \in Nat, NEW h \in Nat, g <= h, NEW gone, NEW fled, fled => gone,
           CallOK(d, op, by, r, u, s, k, g, gone)
    PROVE  CallOK(d, op, by, r, u, t, l, h, fled)
<1>1. PlaceOK(op, Stage(r)) /\ (r.pc \in Finding => r.ret \in Returns)
  BY DEF CallOK
<1>2. LockOK(op, Stage(r), d, l)
  BY DEF CallOK, LockOK, Spares
<1>3. WriteOK(r.pc, r.entry, t)
  BY WriteStays DEF CallOK
<1>4. r.pc \in {"put id", "created?", "grant"} \/ u = "created" => by \in Creators
  <2>1. SeenOK(r.pc, r.entry, u, by, s)
    BY DEF CallOK
  <2>2. CASE u = "created"
    BY <2>1, <2>2 DEF SeenOK
  <2>3. CASE r.pc \in {"put id", "created?", "grant"}
    <3>1. Stage(r) = r.pc
      BY <2>3 DEF Stage, Finding
    <3> QED
      BY <1>1, <2>3, <3>1 DEF PlaceOK, Ended, Deleting
  <2> QED BY <2>2, <2>3
<1>5. SeenOK(r.pc, r.entry, u, by, t)
  BY <1>4, SeenStays DEF CallOK
<1>6. r.gen <= h /\ (r.gen = h => r.gen = g)
  BY DEF CallOK, CallRec
<1>7. gone => BlindOK(op, r, h)
  BY <1>6 DEF CallOK, BlindOK
<1> QED
  BY <1>1, <1>2, <1>3, <1>5, <1>6, <1>7 DEF CallOK

-----------------------------------------------------------------------------
(* A step of c changes its own call and its own broker, grows the store    *)
(* and spares the guards of others.                                        *)
Touches(c) ==
    /\ wanted' = wanted /\ Grows(store, store')
    /\ \A d \in Caller \ {c} : call'[d] = call[d] /\ told'[d] = told[d]
    /\ \A b \in Broker \ {At(c)} : /\ cache'[b] = cache[b] /\ gen'[b] = gen[b]
                                   /\ guards'[b] = guards[b] /\ grants'[b] = grants[b]
    /\ gen[At(c)] <= gen'[At(c)] /\ Spares(c, guards[At(c)], guards'[At(c)])
    /\ guards'[At(c)].writer # Nobody => guards'[At(c)].readers = {}

(* What c has to show of itself.                                           *)
OwnNext(c) == CallOK(c, wanted[c].op, wanted[c].by, call'[c], told'[c], store', guards'[At(c)],
                     gen'[At(c)], Gone(At(c)))

(* The calls and their brokers are typed.                                  *)
LEMMA Typed ==
    ASSUME TopicTypes, NEW c \in Caller
    PROVE  /\ At(c) \in Broker /\ call[c] \in CallRec /\ guards[At(c)] \in Lock
           /\ gen[At(c)] \in Nat /\ told[c] \in Words
           /\ wanted[c].op \in {"create", "hydrate"} => wanted[c].by \in Creators
           /\ wanted[c].by \in Names
<1>1. At(c) \in Broker /\ (wanted[c].op \in {"create", "hydrate"} => wanted[c].by \in Creators)
  BY CatalogAssumption DEF TopicTypes, At
<1>2. wanted[c].by \in Names
  BY NameKinds DEF TopicTypes
<1> QED
  BY <1>1, <1>2 DEF TopicTypes

(* A step that forgets nothing new keeps the invariant.                    *)
LEMMA StepKeeps ==
    ASSUME CatalogInv, NEW c \in Caller, TopicTypes', StoreOK(store'), Touches(c),
           IsGone(c)' <=> IsGone(c), OwnNext(c),
           Gone(At(c)) => cache'[At(c)].entry = Nobody,
           (\E d \in Caller : At(d) = At(c) /\ told'[d] = "deleted") => grants'[At(c)] = {},
           OneCreator', \A w \in late' : WriteOK(w.pc, w.entry, store')
    PROVE  CatalogInv'
<1>1. \A d \in Caller : At(d)' = At(d) /\ (IsGone(d)' <=> IsGone(d))
  BY DEF Touches, At, IsGone
<1>2. \A b \in Broker : Gone(b)' <=> Gone(b)
  BY <1>1 DEF Gone
<1>3. ASSUME NEW d \in Caller PROVE Own(d)'
  <2>0. At(d) \in Broker /\ At(c) \in Broker /\ At(d)' = At(d) /\ (Gone(At(d))' <=> Gone(At(d)))
    BY <1>1, <1>2, Typed DEF CatalogInv
  <2>1. CASE d = c
    BY <2>0, <2>1 DEF OwnNext, Own, CallOK, Touches
  <2>2. CASE d # c
    <3>1. gen[At(d)] <= gen'[At(d)] /\ Spares(c, guards[At(d)], guards'[At(d)])
      BY <2>0, <2>2, Typed DEF Touches, Spares, CatalogInv, TopicTypes
    <3>2. /\ call[d] \in CallRec /\ guards[At(d)] \in Lock /\ gen[At(d)] \in Nat
          /\ guards'[At(d)] \in Lock /\ gen'[At(d)] \in Nat /\ store \in StoreRec /\ store' \in StoreRec
          /\ wanted[d].op \in {"create", "hydrate"} => wanted[d].by \in Creators
      BY <2>0, Typed DEF CatalogInv, TopicTypes
    <3>3. CallOK(d, wanted[d].op, wanted[d].by, call[d], told[d], store, guards[At(d)],
                 gen[At(d)], Gone(At(d)))
      BY DEF CatalogInv, Own
    <3>4. CallOK(d, wanted[d].op, wanted[d].by, call[d], told[d], store', guards'[At(d)],
                 gen'[At(d)], Gone(At(d)))
      BY <2>2, <3>1, <3>2, <3>3, OtherStands DEF Touches
    <3>5. wanted' = wanted /\ call'[d] = call[d] /\ told'[d] = told[d]
      BY <2>2 DEF Touches
    <3> QED
      BY <2>0, <3>4, <3>5 DEF Own, CallOK
  <2> QED BY <2>1, <2>2
<1>4. ASSUME NEW b \in Broker PROVE BrokerOK(b)'
  <2>1. CASE b = At(c)
    BY <1>1, <1>2, <2>1 DEF BrokerOK, Touches
  <2>2. CASE b # At(c)
    <3>1. /\ cache'[b] = cache[b] /\ guards'[b] = guards[b] /\ grants'[b] = grants[b]
      BY <2>2 DEF Touches
    <3>2. \A d \in Caller : At(d) = b => told'[d] = told[d]
      BY <2>2 DEF Touches
    <3> QED
      BY <1>1, <1>2, <3>1, <3>2 DEF BrokerOK, CatalogInv
  <2> QED BY <2>1, <2>2
<1> QED
  BY <1>3, <1>4 DEF CatalogInv

(* There is still one creator after a step of c that claims only an absent *)
(* topic, and is granted only what it claimed.                             *)
LEMMA OneStays ==
    ASSUME CatalogInv, NEW c \in Caller, Grows(store, store'), store' \in StoreRec,
           \A d \in Caller \ {c} : call'[d] = call[d] /\ told'[d] = told[d],
           Grant(c)' => Grant(c) \/ (call[c].pc = "created?" /\ store.tombstone = Nobody),
           Claims(c)' => Claims(c) \/ store.topic = Nobody
    PROVE  OneCreator'
<1>1. store'.tombstone = Nobody => store.tombstone = Nobody
  BY DEF CatalogInv, TopicTypes, Grows, StoreRec
<1>2. \A d \in Caller \ {c} : (Claims(d)' <=> Claims(d)) /\ (Grant(d)' <=> Grant(d))
  BY DEF Claims, Grant
<1>3. ASSUME NEW d \in Caller, Claims(d), store.tombstone = Nobody PROVE store.topic # Nobody
  <2>1. CallOK(d, wanted[d].op, wanted[d].by, call[d], told[d], store, guards[At(d)],
               gen[At(d)], Gone(At(d)))
    BY DEF CatalogInv, Own
  <2>2. store.topic = wanted[d].by
    BY <1>3, <2>1 DEF CallOK, SeenOK, Claims
  <2>3. CASE told[d] = "created"
    BY <2>1, <2>2, <2>3, CatalogAssumption DEF CallOK, SeenOK
  <2>4. CASE call[d].pc \in {"put id", "created?", "grant"}
    <3>1. Stage(call[d]) = call[d].pc
      BY <2>4 DEF Stage, Finding
    <3>2. wanted[d].op = "create"
      BY <2>1, <2>4, <3>1 DEF CallOK, PlaceOK, Ended, Deleting
    <3>3. wanted[d].by \in Creators
      BY <3>2, Typed DEF CatalogInv
    <3> QED BY <2>2, <3>3, CatalogAssumption
  <2> QED BY <1>3, <2>3, <2>4 DEF Claims
<1>4. \A d \in Caller \ {c} : Claims(c)' /\ Claims(d) => store'.tombstone # Nobody
  BY <1>1, <1>3 DEF CatalogInv, OneCreator
<1>5. \A d \in Caller \ {c} : Grant(c)' /\ Grant(d) => FALSE
  BY <1>3 DEF CatalogInv, OneCreator, Claims, Grant
<1>6. \A d, e \in Caller \ {c} : (Claims(d) /\ Claims(e) /\ store.tombstone = Nobody => d = e)
                                 /\ (Grant(d) /\ Grant(e) => d = e)
  BY DEF CatalogInv, OneCreator
<1>7. ASSUME NEW d \in Caller, NEW e \in Caller
      PROVE  /\ Claims(d)' /\ Claims(e)' /\ store'.tombstone = Nobody => d = e
             /\ Grant(d)' /\ Grant(e)' => d = e
  <2>1. CASE d = c
    BY <1>2, <1>4, <1>5, <2>1
  <2>2. CASE e = c
    BY <1>2, <1>4, <1>5, <2>2
  <2>3. CASE d # c /\ e # c
    BY <1>1, <1>2, <1>6, <2>3
  <2> QED BY <2>1, <2>2, <2>3
<1> QED
  BY <1>7 DEF OneCreator

(* Taking and releasing a guard spares the others'.                        *)
LEMMA GuardSpares ==
    ASSUME CatalogInv, NEW c \in Caller, guards' = guards \/ Unlocks(c) \/ Locks(c)
    PROVE  /\ guards' \in [Broker -> Lock]
           /\ \A b \in Broker \ {At(c)} : guards'[b] = guards[b]
           /\ Spares(c, guards[At(c)], guards'[At(c)])
           /\ guards'[At(c)].writer # Nobody => guards'[At(c)].readers = {}
<1>0. /\ At(c) \in Broker /\ guards \in [Broker -> Lock] /\ guards[At(c)] \in Lock
      /\ guards[At(c)].writer # Nobody => guards[At(c)].readers = {}
  BY Typed DEF CatalogInv, TopicTypes, BrokerOK
<1> DEFINE k == guards[At(c)]
<1>1. CASE guards' = guards
  BY <1>0, <1>1 DEF Spares
<1>2. CASE Unlocks(c)
  <2> DEFINE l == [readers |-> k.readers \ {c}, writer |-> IF k.writer = c THEN Nobody ELSE k.writer]
  <2>1. guards' = [guards EXCEPT ![At(c)] = l]
    BY <1>2 DEF Unlocks
  <2>2. l \in Lock /\ Spares(c, k, l) /\ (l.writer # Nobody => l.readers = {})
    BY <1>0 DEF Lock, Spares
  <2> HIDE DEF l
  <2> QED BY <1>0, <2>1, <2>2
<1>3. CASE Locks(c)
  <2>1. CASE guards' = guards
    BY <1>1, <2>1
  <2>2. CASE k.writer = Nobody /\ guards' = [guards EXCEPT ![At(c)].readers = @ \cup {c}]
    <3> DEFINE l == [k EXCEPT !.readers = @ \cup {c}]
    <3>1. guards' = [guards EXCEPT ![At(c)] = l]
      BY <2>2
    <3>2. l \in Lock /\ Spares(c, k, l) /\ (l.writer # Nobody => l.readers = {})
      BY <1>0, <2>2 DEF Lock, Spares
    <3> HIDE DEF l
    <3> QED BY <1>0, <3>1, <3>2
  <2>3. CASE k = [readers |-> {}, writer |-> Nobody] /\ guards' = [guards EXCEPT ![At(c)].writer = c]
    <3> DEFINE l == [k EXCEPT !.writer = c]
    <3>1. guards' = [guards EXCEPT ![At(c)] = l]
      BY <2>3
    <3>2. l \in Lock /\ Spares(c, k, l) /\ (l.writer # Nobody => l.readers = {})
      BY <1>0, <2>3, CatalogAssumption DEF Lock, Spares
    <3> HIDE DEF l
    <3> QED BY <1>0, <3>1, <3>2
  <2> QED BY <1>3, <2>1, <2>2, <2>3 DEF Locks
<1> QED BY <1>1, <1>2, <1>3

(* A step of c that moves its call to r and tells t, writes what c was     *)
(* writing or nothing, and leaves q, g and a in the cache, the generation  *)
(* and the grants of its broker.                                           *)
LEMMA ActKeeps ==
    ASSUME CatalogInv, NEW c \in Caller, NEW r \in CallRec, NEW t \in Words,
           NEW q \in CacheRec, NEW g \in Nat, NEW a \in SUBSET Creators,
           call' = [call EXCEPT ![c] = r], told' = [told EXCEPT ![c] = t], wanted' = wanted,
           store' = store \/ (call[c].pc \in Writing /\ store' = Written(call[c].pc, CatalogEntry(c))),
           guards' = guards \/ Unlocks(c) \/ Locks(c),
           cache' = [cache EXCEPT ![At(c)] = q], Gone(At(c)) => q.entry = Nobody,
           gen' = [gen EXCEPT ![At(c)] = g], gen[At(c)] <= g,
           grants' = [grants EXCEPT ![At(c)] = a],
           t = "deleted" \/ (\E d \in Caller : At(d) = At(c) /\ told[d] = "deleted") => a = {},
           late' \subseteq late \cup InFlight(c),
           r.pc = "revoke" \/ t = "deleted" <=> IsGone(c),
           r.pc = "grant" \/ t = "created" => Grant(c) \/ (call[c].pc = "created?" /\ store.tombstone = Nobody),
           r.pc \in {"put id", "created?", "grant"} \/ t = "created" => Claims(c) \/ store.topic = Nobody,
           CallOK(c, wanted[c].op, wanted[c].by, r, t, store', guards'[At(c)], g, Gone(At(c)))
    PROVE  CatalogInv'
<1>0. /\ At(c) \in Broker /\ call[c] \in CallRec /\ store \in StoreRec /\ StoreOK(store)
      /\ gen[At(c)] \in Nat /\ WriteOK(call[c].pc, call[c].entry, store)
  BY Typed DEF CatalogInv, TopicTypes, Own, CallOK
<1>1. store' \in StoreRec /\ StoreOK(store') /\ Grows(store, store')
  <2>1. CASE store' = store
    BY <1>0, <2>1 DEF Grows
  <2>2. CASE call[c].pc \in Writing /\ store' = Written(call[c].pc, CatalogEntry(c))
    <3>1. call[c].entry \in Names
      BY <1>0 DEF CallRec
    <3> QED BY <1>0, <2>2, <3>1, WrittenGrows DEF CatalogEntry
  <2> QED BY <2>1, <2>2
<1>2. \A w \in late \cup InFlight(c) : w \in WriteRec /\ WriteOK(w.pc, w.entry, store)
  <2>1. \A w \in late : w \in WriteRec /\ WriteOK(w.pc, w.entry, store)
    BY DEF CatalogInv, TopicTypes
  <2>2. ASSUME NEW w \in InFlight(c) PROVE w \in WriteRec /\ WriteOK(w.pc, w.entry, store)
    <3>1. call[c].pc \in Writing /\ w = [pc |-> call[c].pc, entry |-> call[c].entry]
      BY DEF InFlight, CatalogEntry
    <3>2. call[c].entry \in Names
      BY <1>0 DEF CallRec
    <3> QED BY <1>0, <3>1, <3>2 DEF WriteRec
  <2> QED BY <2>1, <2>2
<1>3. \A w \in late' : w \in WriteRec /\ WriteOK(w.pc, w.entry, store')
  BY <1>0, <1>1, <1>2, WriteStays
<1>4. TopicTypes'
  <2>1. call' \in [Caller -> CallRec] /\ told' \in [Caller -> Words] /\ wanted' \in Jobs
    BY DEF CatalogInv, TopicTypes
  <2>2. cache' \in [Broker -> CacheRec] /\ gen' \in [Broker -> Nat] /\ grants' \in [Broker -> SUBSET Creators]
    BY DEF CatalogInv, TopicTypes
  <2>3. guards' \in [Broker -> Lock] /\ late' \subseteq WriteRec
    BY <1>3, GuardSpares
  <2> QED BY <1>1, <2>1, <2>2, <2>3 DEF TopicTypes
<1>5. /\ call'[c] = r /\ told'[c] = t /\ cache'[At(c)] = q /\ gen'[At(c)] = g /\ grants'[At(c)] = a
      /\ \A d \in Caller \ {c} : call'[d] = call[d] /\ told'[d] = told[d]
      /\ \A b \in Broker \ {At(c)} : cache'[b] = cache[b] /\ gen'[b] = gen[b] /\ grants'[b] = grants[b]
  BY <1>0 DEF CatalogInv, TopicTypes
<1>6. Touches(c)
  BY <1>1, <1>5, GuardSpares DEF Touches
<1>7. IsGone(c)' <=> IsGone(c)
  BY <1>5 DEF IsGone
<1>8. OwnNext(c)
  BY <1>5 DEF OwnNext
<1>9. (\E d \in Caller : At(d) = At(c) /\ told'[d] = "deleted") => grants'[At(c)] = {}
  BY <1>5
<1>10. OneCreator'
  <2>1. Grant(c)' => Grant(c) \/ (call[c].pc = "created?" /\ store.tombstone = Nobody)
    BY <1>5 DEF Grant
  <2>2. Claims(c)' => Claims(c) \/ store.topic = Nobody
    BY <1>5 DEF Claims
  <2> QED BY <1>1, <1>5, <2>1, <2>2, OneStays
<1> QED
  BY <1>1, <1>3, <1>4, <1>5, <1>6, <1>7, <1>8, <1>9, <1>10, StepKeeps

(* For the generation of a broker that stays.                              *)
LEMMA NatSame == \A n \in Nat : n <= n
OBVIOUS

(* A step that only moves c's call.                                        *)
LEMMA MoveKeeps ==
    ASSUME CatalogInv, NEW c \in Caller, NEW r \in CallRec, call' = [call EXCEPT ![c] = r],
           UNCHANGED <<cache, gen, grants, wanted, told>>,
           store' = store \/ (call[c].pc \in Writing /\ store' = Written(call[c].pc, CatalogEntry(c))),
           guards' = guards \/ Locks(c), late' \subseteq late \cup InFlight(c),
           told[c] = "nothing", r.pc \notin {"revoke", "grant"}, call[c].pc # "revoke",
           r.pc \in {"put id", "created?"} => Claims(c) \/ store.topic = Nobody,
           CallOK(c, wanted[c].op, wanted[c].by, r, "nothing", store', guards'[At(c)], gen[At(c)], Gone(At(c)))
    PROVE  CatalogInv'
<1>0. At(c) \in Broker /\ gen[At(c)] \in Nat /\ "nothing" \in Words
  BY Typed DEF CatalogInv
<1>1. /\ cache[At(c)] \in CacheRec /\ grants[At(c)] \in SUBSET Creators
      /\ cache' = [cache EXCEPT ![At(c)] = cache[At(c)]] /\ gen' = [gen EXCEPT ![At(c)] = gen[At(c)]]
      /\ grants' = [grants EXCEPT ![At(c)] = grants[At(c)]] /\ told' = [told EXCEPT ![c] = "nothing"]
  BY <1>0 DEF CatalogInv, TopicTypes
<1>2. /\ Gone(At(c)) => cache[At(c)].entry = Nobody
      /\ (\E d \in Caller : At(d) = At(c) /\ told[d] = "deleted") => grants[At(c)] = {}
  BY <1>0 DEF CatalogInv, BrokerOK
<1>3. ~IsGone(c) /\ r.pc # "revoke"
  BY DEF IsGone
<1>4. gen[At(c)] <= gen[At(c)]
  BY Zenon, <1>0, NatSame
<1> HIDE DEF IsGone
<1> QED
  BY <1>0, <1>1, <1>2, <1>3, <1>4, ActKeeps

-----------------------------------------------------------------------------
(* What is known of a call and of its broker.                              *)
LEMMA Here ==
    ASSUME CatalogInv, NEW c \in Caller
    PROVE  /\ CallOK(c, wanted[c].op, wanted[c].by, call[c], told[c], store, guards[At(c)],
                     gen[At(c)], Gone(At(c)))
           /\ At(c) \in Broker /\ call \in [Caller -> CallRec] /\ call[c] \in CallRec /\ store \in StoreRec
           /\ gen[At(c)] \in Nat /\ guards[At(c)] \in Lock /\ cache[At(c)] \in CacheRec
           /\ wanted[c].op \in {"create", "hydrate"} => wanted[c].by \in Creators
           /\ wanted[c].by \in Names
           /\ call[c].pc # "done" => told[c] = "nothing"
           /\ Gone(At(c)) => store.tombstone # Nobody /\ cache[At(c)].entry = Nobody
<1>1. CallOK(c, wanted[c].op, wanted[c].by, call[c], told[c], store, guards[At(c)],
             gen[At(c)], Gone(At(c)))
  BY DEF CatalogInv, Own
<1>2. /\ At(c) \in Broker /\ call \in [Caller -> CallRec] /\ call[c] \in CallRec /\ store \in StoreRec
      /\ gen[At(c)] \in Nat /\ guards[At(c)] \in Lock /\ cache[At(c)] \in CacheRec
      /\ wanted[c].op \in {"create", "hydrate"} => wanted[c].by \in Creators
      /\ wanted[c].by \in Names
  BY Typed DEF CatalogInv, TopicTypes
<1>3. call[c].pc # "done" => told[c] = "nothing"
  BY <1>1 DEF CallOK, SeenOK
<1>4. Gone(At(c)) => cache[At(c)].entry = Nobody
  BY <1>2 DEF CatalogInv, BrokerOK
<1>5. ASSUME Gone(At(c)) PROVE store.tombstone # Nobody
  <2>1. PICK d \in Caller : IsGone(d)
    BY <1>5 DEF Gone
  <2>2. SeenOK(call[d].pc, call[d].entry, told[d], wanted[d].by, store)
    BY DEF CatalogInv, Own, CallOK
  <2> QED BY <2>1, <2>2 DEF SeenOK, IsGone
<1> QED
  BY <1>1, <1>2, <1>3, <1>4, <1>5

(* The steps of a find.                                                    *)
LEMMA FindKeeps ==
    ASSUME CatalogInv, NEW c \in Caller, FindTombstone(c) \/ FindEntry(c) \/ FindId(c)
    PROVE  CatalogInv'
<1> DEFINE o == call[c]
<1>0. /\ UNCHANGED <<store, cache, gen, guards, grants, wanted, late, told>> /\ o.pc \in Finding
      /\ o.pc \notin {"revoke", "done"}
  BY DEF FindTombstone, FindEntry, FindId, Finding
<1> DEFINE r == call'[c]
<1>1. /\ r \in CallRec /\ call' = [call EXCEPT ![c] = r] /\ r.ret = o.ret /\ r.gen = o.gen
      /\ \/ r.pc = o.ret /\ r.entry = Nobody
         \/ r.pc = o.ret /\ store.tombstone = Nobody /\ o.pc = "find again"
         \/ r.pc \in Past /\ (o.pc \in Past \/ store.tombstone = Nobody)
  <2>1. o \in CallRec /\ call \in [Caller -> CallRec] /\ Nobody \in Names /\ store \in StoreRec
        /\ Creators \subseteq Names /\ {"find entry", "find id", "find again"} \subseteq Words
    BY Here, NameKinds, AreWords
  <2>2. CASE FindTombstone(c)
    <3>1. CASE store.tombstone # Nobody
      <4>1. call' = [call EXCEPT ![c] = [o EXCEPT !.pc = o.ret, !.entry = Nobody]]
        BY <2>1, <2>2, <3>1 DEF FindTombstone, Found, CallRec
      <4> QED BY <2>1, <4>1 DEF CallRec
    <3>2. CASE store.tombstone = Nobody /\ o.pc = "find"
      <4>1. call' = [call EXCEPT ![c] = [o EXCEPT !.pc = "find entry"]]
        BY <2>1, <2>2, <3>2 DEF FindTombstone, Goto, CallRec
      <4>5. r \in CallRec /\ call' = [call EXCEPT ![c] = r] /\ r.ret = o.ret /\ r.gen = o.gen /\ r.pc = "find entry"
        BY <2>1, <4>1 DEF CallRec
      <4>6. r.pc \in Past /\ (o.pc \in Past \/ store.tombstone = Nobody)
        BY <3>2, <4>5 DEF Past
      <4> HIDE DEF r
      <4> QED BY <4>5, <4>6
    <3>3. CASE store.tombstone = Nobody /\ o.pc = "find again"
      <4>1. call' = [call EXCEPT ![c] = [o EXCEPT !.pc = o.ret]]
        BY <2>1, <2>2, <3>3 DEF FindTombstone, Found, CatalogEntry, CallRec
      <4> QED BY <2>1, <3>3, <4>1 DEF CallRec
    <3> QED BY <2>2, <3>1, <3>2, <3>3 DEF FindTombstone
  <2>3. CASE FindEntry(c)
    <3>1. CASE store.topic = Nobody
      <4>1. call' = [call EXCEPT ![c] = [o EXCEPT !.pc = o.ret, !.entry = Nobody]]
        BY <2>1, <2>3, <3>1 DEF FindEntry, Found, CallRec
      <4> QED BY <2>1, <4>1 DEF CallRec
    <3>2. CASE store.topic # Nobody
      <4>1. call' = [call EXCEPT ![c] = [o EXCEPT !.pc = "find id", !.entry = store.topic]]
        BY <2>1, <2>3, <3>2 DEF FindEntry, CallRec
      <4>2. store.topic \in Names /\ o.pc \in Past
        BY <2>1, <2>3, <3>2 DEF StoreRec, FindEntry, Past
      <4>5. r \in CallRec /\ call' = [call EXCEPT ![c] = r] /\ r.ret = o.ret /\ r.gen = o.gen /\ r.pc = "find id"
        BY <2>1, <4>1, <4>2 DEF CallRec
      <4>6. r.pc \in Past /\ (o.pc \in Past \/ store.tombstone = Nobody)
        BY <4>2, <4>5 DEF Past
      <4> HIDE DEF r
      <4> QED BY <4>5, <4>6
    <3> QED BY <3>1, <3>2
  <2>4. CASE FindId(c)
    <3>1. CASE store.id
      <4>1. call' = [call EXCEPT ![c] = [o EXCEPT !.pc = "find again"]]
        BY <2>1, <2>4, <3>1 DEF FindId, Goto, CallRec
      <4>5. r \in CallRec /\ call' = [call EXCEPT ![c] = r] /\ r.ret = o.ret /\ r.gen = o.gen /\ r.pc = "find again"
        BY <2>1, <4>1 DEF CallRec
      <4>6. r.pc \in Past /\ (o.pc \in Past \/ store.tombstone = Nobody)
        BY <2>4, <4>5 DEF Past, FindId
      <4> HIDE DEF r
      <4> QED BY <4>5, <4>6
    <3>2. CASE ~store.id
      <4>1. call' = [call EXCEPT ![c] = [o EXCEPT !.pc = o.ret, !.entry = Nobody]]
        BY <2>1, <2>4, <3>2 DEF FindId, Found, CallRec
      <4> QED BY <2>1, <4>1 DEF CallRec
    <3> QED BY <3>1, <3>2
  <2> QED BY <2>2, <2>3, <2>4
<1> HIDE DEF r
<1>2. /\ CallOK(c, wanted[c].op, wanted[c].by, o, "nothing", store, guards[At(c)], gen[At(c)], Gone(At(c)))
      /\ told[c] = "nothing" /\ (Gone(At(c)) => store.tombstone # Nobody)
  BY <1>0, Here
<1>3. o.ret \in Returns /\ Stage(o) = o.ret /\ Stage(r) = o.ret
  BY <1>0, <1>1, <1>2 DEF CallOK, Stage, Returns, Finding, Past
<1>4. CallOK(c, wanted[c].op, wanted[c].by, r, "nothing", store, guards[At(c)], gen[At(c)], Gone(At(c)))
  <2>1. PlaceOK(wanted[c].op, Stage(r)) /\ LockOK(wanted[c].op, Stage(r), c, guards[At(c)]) /\ r.gen <= gen[At(c)]
    BY <1>1, <1>2, <1>3 DEF CallOK
  <2>2. r.pc \in Past \cup Returns
    BY <1>1, <1>3
  <2>3. WriteOK(r.pc, r.entry, store) /\ SeenOK(r.pc, r.entry, "nothing", wanted[c].by, store)
    BY <2>2 DEF WriteOK, SeenOK, Past, Returns
  <2>4. r.pc \in Finding => r.ret \in Returns
    BY <1>1, <1>3
  <2>5. Gone(At(c)) => BlindOK(wanted[c].op, r, gen[At(c)])
    BY <1>0, <1>1, <1>2, <1>3 DEF CallOK, BlindOK, PlaceOK, Past, Returns, Finding, Ended, Deleting
  <2> QED BY <2>1, <2>3, <2>4, <2>5 DEF CallOK
<1>5. r.pc \notin {"revoke", "grant", "put id", "created?"}
  BY <1>1, <1>3 DEF Past, Returns
<1> QED
  BY <1>0, <1>1, <1>2, <1>4, <1>5, MoveKeeps

(* The guard taken at the start.                                           *)
LEMMA LockTaken ==
    ASSUME CatalogInv, NEW c \in Caller, Locks(c)
    PROVE  /\ wanted[c].op \in Reads => c \in guards'[At(c)].readers
           /\ wanted[c].op \in Writes => guards'[At(c)].writer = c
<1>1. At(c) \in Broker /\ guards \in [Broker -> Lock]
  BY Here DEF CatalogInv, TopicTypes
<1> QED
  BY <1>1 DEF Locks, Reads, Writes, Lock

(* A call starts without asking the cache.                                 *)
LEMMA StartKeeps ==
    ASSUME CatalogInv, NEW c \in Caller, StartCreate(c) \/ StartDelete(c) \/ StartHydrate(c)
    PROVE  CatalogInv'
<1> DEFINE o == call[c]
<1> DEFINE r == call'[c]
<1>0. /\ UNCHANGED <<store, cache, gen, grants, wanted, late, told>> /\ o.pc = "start" /\ Locks(c)
  BY DEF StartCreate, StartDelete, StartHydrate, Start
<1>1. /\ o \in CallRec /\ call \in [Caller -> CallRec] /\ told[c] = "nothing" /\ gen[At(c)] \in Nat
      /\ wanted[c].by \in Names /\ o.gen <= gen[At(c)]
      /\ {"tombstone?", "deleted?", "list", "find", "hydrate"} \subseteq Words
  BY <1>0, Here, AreWords DEF CallOK
<1>2. /\ wanted[c].op \in Reads => c \in guards'[At(c)].readers
      /\ wanted[c].op \in Writes => guards'[At(c)].writer = c
  BY <1>0, LockTaken
<1>3. CASE StartCreate(c)
  <2>1. call' = [call EXCEPT ![c] = [o EXCEPT !.pc = "tombstone?", !.gen = gen[At(c)], !.entry = wanted[c].by]]
    BY <1>1, <1>3 DEF StartCreate, CallRec
  <2>2. /\ r \in CallRec /\ call' = [call EXCEPT ![c] = r]
        /\ r.pc = "tombstone?" /\ r.gen = gen[At(c)] /\ r.entry = wanted[c].by
    BY <1>1, <2>1 DEF CallRec
  <2>3. wanted[c].op = "create"
    BY <1>3 DEF StartCreate, Start
  <2>4. r.gen <= gen[At(c)]
    BY Zenon, <1>1, <2>2, NatSame
  <2> HIDE DEF r
  <2>5. CallOK(c, wanted[c].op, wanted[c].by, r, "nothing", store', guards'[At(c)], gen[At(c)], Gone(At(c)))
    BY <1>2, <2>2, <2>3, <2>4 DEF CallOK, PlaceOK, LockOK, WriteOK, SeenOK, BlindOK, Stage, Finding, Reads,
                                  Ended, Deleting
  <2> QED
    BY <1>0, <1>1, <2>2, <2>5, MoveKeeps
<1>4. CASE StartDelete(c)
  <2>1. call' = [call EXCEPT ![c] = [o EXCEPT !.pc = "deleted?"]]
    BY <1>1, <1>4 DEF StartDelete, Goto, CallRec
  <2>2. r \in CallRec /\ call' = [call EXCEPT ![c] = r] /\ r.pc = "deleted?" /\ r.gen = o.gen
    BY <1>1, <2>1 DEF CallRec
  <2>3. wanted[c].op = "delete"
    BY <1>4 DEF StartDelete, Start
  <2> HIDE DEF r
  <2>4. CallOK(c, wanted[c].op, wanted[c].by, r, "nothing", store', guards'[At(c)], gen[At(c)], Gone(At(c)))
    BY <1>1, <1>2, <2>2, <2>3 DEF CallOK, PlaceOK, LockOK, WriteOK, SeenOK, BlindOK, Stage, Finding, Reads,
                                  Writes, Ended, Deleting
  <2> QED
    BY <1>0, <1>1, <2>2, <2>4, MoveKeeps
<1>5. CASE StartHydrate(c)
  <2>1. \/ call' = [call EXCEPT ![c] = [o EXCEPT !.pc = "find", !.ret = "hydrate"]]
        \/ call' = [call EXCEPT ![c] = [o EXCEPT !.pc = "list"]]
    BY <1>1, <1>5 DEF StartHydrate, Goto, Finds, CallRec
  <2>2. /\ r \in CallRec /\ call' = [call EXCEPT ![c] = r] /\ r.gen = o.gen
        /\ (r.pc = "find" /\ r.ret = "hydrate") \/ r.pc = "list"
    <3>1. CASE call' = [call EXCEPT ![c] = [o EXCEPT !.pc = "find", !.ret = "hydrate"]]
      BY <1>1, <3>1, AreWords DEF CallRec
    <3>2. CASE call' = [call EXCEPT ![c] = [o EXCEPT !.pc = "list"]]
      BY <1>1, <3>2, AreWords DEF CallRec
    <3> QED BY <2>1, <3>1, <3>2
  <2>3. wanted[c].op = "hydrate"
    BY <1>5 DEF StartHydrate, Start
  <2> HIDE DEF r
  <2>4. CallOK(c, wanted[c].op, wanted[c].by, r, "nothing", store', guards'[At(c)], gen[At(c)], Gone(At(c)))
    BY <1>1, <1>2, <2>2, <2>3 DEF CallOK, PlaceOK, LockOK, WriteOK, SeenOK, BlindOK, Stage, Finding, Reads,
                                  Ended, Deleting, Returns, Past
  <2> QED
    BY <1>0, <1>1, <2>2, <2>4, MoveKeeps
<1> QED BY <1>3, <1>4, <1>5

(* A call starts with what the cache has, or forgets it and looks.         *)
LEMMA ServedKeeps ==
    ASSUME CatalogInv, NEW c \in Caller, NEW op \in {"lookup", "alter"}, Served(c, op)
    PROVE  CatalogInv'
<1> DEFINE o == call[c]
<1> DEFINE r == call'[c]
<1> DEFINE g == gen'[At(c)]
<1> DEFINE q == cache'[At(c)]
<1>0. /\ UNCHANGED <<store, grants, wanted, late, told>> /\ o.pc = "start" /\ Locks(c)
      /\ wanted[c].op = op
  BY DEF Served, Start
<1>1. /\ o \in CallRec /\ call \in [Caller -> CallRec] /\ told[c] = "nothing" /\ gen[At(c)] \in Nat
      /\ At(c) \in Broker /\ gen \in [Broker -> Nat] /\ cache \in [Broker -> CacheRec]
      /\ cache[At(c)] \in CacheRec /\ (Gone(At(c)) => cache[At(c)].entry = Nobody)
      /\ {"served", "find", "nothing"} \subseteq Words /\ NoServed \in CacheRec /\ NoServed.entry = Nobody
  BY <1>0, Here, AreWords, NameKinds DEF CatalogInv, TopicTypes, NoServed, CacheRec
<1>2. op = "alter" => guards'[At(c)].writer = c
  BY <1>0, LockTaken DEF Writes
<1>3. /\ g \in Nat /\ gen[At(c)] <= g /\ gen' = [gen EXCEPT ![At(c)] = g]
      /\ q \in CacheRec /\ cache' = [cache EXCEPT ![At(c)] = q] /\ (Gone(At(c)) => q.entry = Nobody)
  <2>1. CASE UNCHANGED <<cache, gen>>
    BY <1>1, <2>1
  <2>2. CASE ForgetTopic(At(c))
    BY <1>1, <2>2 DEF ForgetTopic
  <2> QED BY <2>1, <2>2 DEF Served
<1>4. /\ r \in CallRec /\ call' = [call EXCEPT ![c] = r] /\ r.gen = g
      /\ \/ r.pc = "served" /\ (Gone(At(c)) => r.entry = Nobody)
         \/ r.pc = "find" /\ r.ret = "served"
  <2>1. CASE cache[At(c)].fresh
    <3>1. call' = [call EXCEPT ![c] = [o EXCEPT !.pc = "served", !.gen = gen[At(c)], !.entry = cache[At(c)].entry]]
      BY <1>1, <2>1 DEF Served, CallRec
    <3>2. g = gen[At(c)]
      BY <2>1 DEF Served
    <3>3. cache[At(c)].entry \in Names
      BY <1>1 DEF CacheRec
    <3> HIDE DEF g
    <3> QED BY <1>1, <3>1, <3>2, <3>3 DEF CallRec
  <2>2. CASE ~cache[At(c)].fresh
    <3>1. call' = [call EXCEPT ![c] = [o EXCEPT !.pc = "find", !.ret = "served", !.gen = g]]
      BY <1>1, <2>2 DEF Served, CallRec
    <3> HIDE DEF g
    <3> QED BY <1>1, <1>3, <3>1 DEF CallRec
  <2> QED BY <2>1, <2>2
<1>5. r.gen <= g
  BY Zenon, <1>3, <1>4, NatSame
<1> HIDE DEF r, g, q
<1>6. CallOK(c, wanted[c].op, wanted[c].by, r, "nothing", store', guards'[At(c)], g, Gone(At(c)))
  BY <1>0, <1>2, <1>4, <1>5 DEF CallOK, PlaceOK, LockOK, WriteOK, SeenOK, BlindOK, Stage, Finding, Reads,
                                Ended, Deleting, Returns, Past
<1>7. /\ grants[At(c)] \in SUBSET Creators /\ grants' = [grants EXCEPT ![At(c)] = grants[At(c)]]
      /\ told' = [told EXCEPT ![c] = "nothing"]
      /\ (\E d \in Caller : At(d) = At(c) /\ told[d] = "deleted") => grants[At(c)] = {}
  BY <1>0, <1>1 DEF CatalogInv, TopicTypes, BrokerOK
<1>8. ~IsGone(c) /\ r.pc \notin {"revoke", "grant", "put id", "created?"} /\ late' \subseteq late
  BY <1>0, <1>1, <1>4 DEF IsGone
<1> QED
  BY <1>0, <1>1, <1>3, <1>4, <1>6, <1>7, <1>8, ActKeeps

(* The looks of a create at the store.                                     *)
LEMMA CreateLooksKeeps ==
    ASSUME CatalogInv, NEW c \in Caller,
           CreateAllowed(c) \/ RejectTombstoned(c) \/ Race(c) \/ RaceEntry(c)
    PROVE  CatalogInv'
<1> DEFINE o == call[c]
<1> DEFINE r == call'[c]
<1>0. /\ UNCHANGED <<store, cache, gen, guards, grants, wanted, late, told>>
      /\ o.pc \in {"tombstone?", "created?", "race", "race entry"}
  BY DEF CreateAllowed, RejectTombstoned, Race, RaceEntry
<1>1. /\ o \in CallRec /\ call \in [Caller -> CallRec] /\ told[c] = "nothing" /\ store \in StoreRec
      /\ CallOK(c, wanted[c].op, wanted[c].by, o, "nothing", store, guards[At(c)], gen[At(c)], Gone(At(c)))
      /\ {"put owner", "withdraw", "race", "race entry", "heal id"} \subseteq Words
      /\ Creators \subseteq Names /\ Nobody \in Names
      /\ wanted[c].op \in {"create", "hydrate"} => wanted[c].by \in Creators
      /\ Gone(At(c)) => store.tombstone # Nobody
  BY <1>0, Here, AreWords, NameKinds
<1>2. store.topic \in Names
  BY <1>1 DEF StoreRec
<1>3. /\ r \in CallRec /\ call' = [call EXCEPT ![c] = r] /\ r.gen = o.gen
      /\ \/ o.pc = "tombstone?" /\ r.pc = "put owner" /\ r.entry = o.entry /\ store.tombstone = Nobody
         \/ o.pc = "created?" /\ r.pc = "withdraw" /\ r.entry = o.entry /\ store.tombstone # Nobody
         \/ o.pc = "race" /\ r.pc = "race entry"
         \/ o.pc = "race entry" /\ r.pc \in {"race", "heal id"}
  <2>1. CASE CreateAllowed(c)
    <3>1. call' = [call EXCEPT ![c] = [o EXCEPT !.pc = "put owner"]]
      BY <1>1, <2>1 DEF CreateAllowed, Goto, CallRec
    <3> QED BY <1>1, <2>1, <3>1 DEF CallRec, CreateAllowed
  <2>2. CASE RejectTombstoned(c)
    <3>1. call' = [call EXCEPT ![c] = [o EXCEPT !.pc = "withdraw"]]
      BY <1>1, <2>2 DEF RejectTombstoned, Goto, CallRec
    <3> QED BY <1>1, <2>2, <3>1 DEF CallRec, RejectTombstoned
  <2>3. CASE Race(c)
    <3>1. call' = [call EXCEPT ![c] = [o EXCEPT !.pc = "race entry"]]
      BY <1>1, <2>3 DEF Race, Goto, CallRec
    <3> QED BY <1>1, <2>3, <3>1 DEF CallRec, Race
  <2>4. CASE RaceEntry(c)
    <3> DEFINE p == IF store.topic = Nobody THEN "race" ELSE "heal id"
    <3>1. call' = [call EXCEPT ![c] = [o EXCEPT !.pc = p, !.entry = store.topic]]
      BY <1>1, <2>4 DEF RaceEntry, CallRec
    <3>2. p \in {"race", "heal id"} /\ p \in Words
      BY <1>1
    <3> HIDE DEF p
    <3>3. r \in CallRec /\ call' = [call EXCEPT ![c] = r] /\ r.gen = o.gen /\ r.pc = p
      BY <1>1, <1>2, <3>1, <3>2 DEF CallRec
    <3>4. o.pc = "race entry"
      BY <2>4 DEF RaceEntry
    <3> HIDE DEF r
    <3> QED BY <3>2, <3>3, <3>4
  <2> QED BY <2>1, <2>2, <2>3, <2>4
<1> HIDE DEF r
<1>4. wanted[c].op = "create" /\ c \in guards[At(c)].readers
  BY <1>0, <1>1 DEF CallOK, PlaceOK, LockOK, Stage, Finding, Ended, Deleting, Reads
<1>5. CallOK(c, wanted[c].op, wanted[c].by, r, "nothing", store, guards[At(c)], gen[At(c)], Gone(At(c)))
  BY <1>0, <1>1, <1>3, <1>4
     DEF CallOK, PlaceOK, LockOK, WriteOK, SeenOK, BlindOK, Stage, Finding, Ended, Deleting
<1> QED
  BY <1>0, <1>1, <1>3, <1>5, MoveKeeps

(* The looks of a delete, and its failing.                                 *)
LEMMA DeleteLooksKeeps ==
    ASSUME CatalogInv, NEW c \in Caller, DeleteLooks(c) \/ DeleteEntry(c) \/ DeleteFails(c)
    PROVE  CatalogInv'
<1> DEFINE o == call[c]
<1> DEFINE r == call'[c]
<1>0. /\ UNCHANGED <<store, cache, gen, guards, grants, wanted, told>> /\ late' \subseteq late \cup InFlight(c)
      /\ o.pc \in Deleting /\ o.pc # "revoke" /\ o.pc # "done"
  BY DEF DeleteLooks, DeleteEntry, DeleteFails, Deleting
<1>1. /\ o \in CallRec /\ call \in [Caller -> CallRec] /\ told[c] = "nothing" /\ store \in StoreRec
      /\ CallOK(c, wanted[c].op, wanted[c].by, o, "nothing", store, guards[At(c)], gen[At(c)], Gone(At(c)))
      /\ {"purge", "delete entry", "put tombstone", "find", "evict"} \subseteq Words
      /\ Creators \subseteq Names
  BY <1>0, Here, AreWords, NameKinds
<1>2. /\ store.topic \in Creators \cup {Nobody} /\ store.tombstone \in Creators \cup {Nobody}
      /\ store.topic \in Names /\ store.tombstone \in Names
  BY <1>1, NameKinds DEF StoreRec
<1>3. /\ r \in CallRec /\ call' = [call EXCEPT ![c] = r] /\ r.gen = o.gen
      /\ \/ r.pc = "purge" /\ r.entry \in Creators /\ store.tombstone # Nobody
         \/ r.pc = "delete entry"
         \/ r.pc = "put tombstone" /\ r.entry \in Creators
         \/ r.pc = "find" /\ r.ret = "evict"
  <2>1. CASE DeleteLooks(c)
    <3>1. CASE store.tombstone # Nobody
      <4>1. call' = [call EXCEPT ![c] = [o EXCEPT !.pc = "purge", !.entry = store.tombstone]]
        BY <1>1, <2>1, <3>1 DEF DeleteLooks, CallRec
      <4> QED BY <1>1, <1>2, <3>1, <4>1 DEF CallRec
    <3>2. CASE store.tombstone = Nobody
      <4>1. call' = [call EXCEPT ![c] = [o EXCEPT !.pc = "delete entry"]]
        BY <1>1, <2>1, <3>2 DEF DeleteLooks, Goto, CallRec
      <4> QED BY <1>1, <4>1 DEF CallRec
    <3> QED BY <3>1, <3>2
  <2>2. CASE DeleteEntry(c)
    <3>1. call' = [call EXCEPT ![c] = [o EXCEPT !.pc = "put tombstone", !.entry = store.topic]]
      BY <1>1, <2>2 DEF DeleteEntry, CallRec
    <3>2. store.topic \in Creators
      BY <1>2, <2>2 DEF DeleteEntry
    <3> QED BY <1>1, <1>2, <3>1, <3>2 DEF CallRec
  <2>3. CASE DeleteFails(c)
    <3>1. call' = [call EXCEPT ![c] = [o EXCEPT !.pc = "find", !.ret = "evict"]]
      BY <1>1, <2>3 DEF DeleteFails, Finds, CallRec
    <3> QED BY <1>1, <3>1 DEF CallRec
  <2> QED BY <2>1, <2>2, <2>3
<1> HIDE DEF r
<1>4. wanted[c].op = "delete" /\ guards[At(c)].writer = c
  BY <1>0, <1>1 DEF CallOK, PlaceOK, LockOK, Stage, Finding, Ended, Deleting
<1>5. CallOK(c, wanted[c].op, wanted[c].by, r, "nothing", store, guards[At(c)], gen[At(c)], Gone(At(c)))
  BY <1>1, <1>3, <1>4
     DEF CallOK, PlaceOK, LockOK, WriteOK, SeenOK, BlindOK, Stage, Finding, Ended, Deleting, Reads, Returns
<1> QED
  BY <1>0, <1>1, <1>3, <1>5, MoveKeeps

(* An alter finds its topic; a hydration lists.                            *)
LEMMA OtherMovesKeep ==
    ASSUME CatalogInv, NEW c \in Caller, AlterFound(c) \/ ListOwned(c) \/ ListedOne(c)
    PROVE  CatalogInv'
<1> DEFINE o == call[c]
<1> DEFINE r == call'[c]
<1>0. /\ UNCHANGED <<store, cache, gen, guards, grants, wanted, late, told>>
      /\ o.pc \in {"alter", "list", "list found"}
  BY DEF AlterFound, ListOwned, ListedOne
<1>1. /\ o \in CallRec /\ call \in [Caller -> CallRec] /\ told[c] = "nothing" /\ store \in StoreRec
      /\ CallOK(c, wanted[c].op, wanted[c].by, o, "nothing", store, guards[At(c)], gen[At(c)], Gone(At(c)))
      /\ {"put retention", "list empty", "find", "list found", "hydrate"} \subseteq Words
      /\ wanted[c].by \in Names
  BY <1>0, Here, AreWords
<1>2. /\ r \in CallRec /\ call' = [call EXCEPT ![c] = r] /\ r.gen = o.gen
      /\ \/ o.pc = "alter" /\ r.pc = "put retention" /\ r.entry = wanted[c].by
         \/ o.pc \in {"list", "list found"} /\ r.pc = "list empty"
         \/ o.pc \in {"list", "list found"} /\ r.pc = "find" /\ r.ret \in {"list found", "hydrate"}
  <2>1. CASE AlterFound(c)
    <3>1. call' = [call EXCEPT ![c] = [o EXCEPT !.pc = "put retention", !.entry = wanted[c].by]]
      BY <1>1, <2>1 DEF AlterFound, CallRec
    <3>2. r \in CallRec /\ call' = [call EXCEPT ![c] = r] /\ r.gen = o.gen
          /\ r.pc = "put retention" /\ r.entry = wanted[c].by
      BY <1>1, <3>1 DEF CallRec
    <3>3. o.pc = "alter"
      BY <2>1 DEF AlterFound
    <3> HIDE DEF r
    <3> QED BY <3>2, <3>3
  <2>2. CASE ListOwned(c)
    <3>0. o.pc = "list"
      BY <2>2 DEF ListOwned
    <3>1. CASE call' = [call EXCEPT ![c] = [o EXCEPT !.pc = "list empty"]]
      BY <1>1, <3>0, <3>1 DEF CallRec
    <3>2. CASE call' = [call EXCEPT ![c] = [o EXCEPT !.pc = "find", !.ret = "list found"]]
      BY <1>1, <3>0, <3>2 DEF CallRec
    <3>3. \/ call' = [call EXCEPT ![c] = [o EXCEPT !.pc = "list empty"]]
          \/ call' = [call EXCEPT ![c] = [o EXCEPT !.pc = "find", !.ret = "list found"]]
      BY <1>1, <2>2 DEF ListOwned, Goto, Finds, CallRec
    <3> QED BY <3>1, <3>2, <3>3
  <2>3. CASE ListedOne(c)
    <3>1. call' = [call EXCEPT ![c] = [o EXCEPT !.pc = "find", !.ret = "hydrate"]]
      BY <1>1, <2>3 DEF ListedOne, Finds, CallRec
    <3> QED BY <1>1, <2>3, <3>1 DEF CallRec, ListedOne
  <2> QED BY <2>1, <2>2, <2>3
<1> HIDE DEF r
<1>3. /\ o.pc = "alter" => wanted[c].op = "alter" /\ guards[At(c)].writer = c
      /\ o.pc \in {"list", "list found"} => wanted[c].op = "hydrate" /\ c \in guards[At(c)].readers
  BY <1>0, <1>1 DEF CallOK, PlaceOK, LockOK, Stage, Finding, Ended, Deleting, Reads
<1>4. CallOK(c, wanted[c].op, wanted[c].by, r, "nothing", store, guards[At(c)], gen[At(c)], Gone(At(c)))
  BY <1>1, <1>2, <1>3
     DEF CallOK, PlaceOK, LockOK, WriteOK, SeenOK, BlindOK, Stage, Finding, Ended, Deleting, Reads, Returns, Past
<1> QED
  BY <1>0, <1>1, <1>2, <1>4, MoveKeeps

(* The writes of a create.                                                 *)
LEMMA CreatePutsKeep ==
    ASSUME CatalogInv, NEW c \in Caller, PutOwner(c) \/ PutTopic(c) \/ PutId(c) \/ HealId(c)
    PROVE  CatalogInv'
<1> DEFINE o == call[c]
<1> DEFINE r == call'[c]
<1>0. /\ UNCHANGED <<cache, gen, guards, grants, wanted, late, told>> /\ o.pc \in Writing
      /\ store' = Written(o.pc, o.entry) /\ o.pc \in {"put owner", "put topic", "put id", "heal id"}
  BY DEF PutOwner, PutTopic, PutId, HealId, Puts, Writing, CatalogEntry
<1>1. /\ o \in CallRec /\ call \in [Caller -> CallRec] /\ told[c] = "nothing" /\ store \in StoreRec
      /\ CallOK(c, wanted[c].op, wanted[c].by, o, "nothing", store, guards[At(c)], gen[At(c)], Gone(At(c)))
      /\ {"put topic", "put id", "race", "created?", "find", "raced"} \subseteq Words
      /\ wanted[c].op \in {"create", "hydrate"} => wanted[c].by \in Creators
  BY <1>0, Here, AreWords
<1>2. wanted[c].op = "create" /\ c \in guards[At(c)].readers /\ wanted[c].by \in Creators
  BY <1>0, <1>1 DEF CallOK, PlaceOK, LockOK, Stage, Finding, Ended, Deleting, Reads
<1>3. ~Gone(At(c))
  BY <1>0, <1>1, <1>2 DEF CallOK, BlindOK
<1>4. CASE PutOwner(c)
  <2>1. /\ r \in CallRec /\ call' = [call EXCEPT ![c] = r] /\ r.gen = o.gen /\ r.entry = o.entry
        /\ r.pc = "put topic"
    <3>1. call' = [call EXCEPT ![c] = [o EXCEPT !.pc = "put topic"]]
      BY <1>1, <1>4 DEF PutOwner, Goto, CallRec
    <3> QED BY <1>1, <3>1 DEF CallRec
  <2>2. o.entry = wanted[c].by /\ o.pc = "put owner"
    BY <1>1, <1>4 DEF CallOK, SeenOK, PutOwner
  <2>3. o.entry \in store'.owner
    BY <1>0, <1>1, <2>2 DEF Written, StoreRec
  <2> HIDE DEF r
  <2>4. CallOK(c, wanted[c].op, wanted[c].by, r, "nothing", store', guards'[At(c)], gen[At(c)], Gone(At(c)))
    BY <1>0, <1>1, <1>2, <1>3, <2>1, <2>2, <2>3
       DEF CallOK, PlaceOK, LockOK, WriteOK, SeenOK, Stage, Finding, Ended, Deleting
  <2> QED BY <1>0, <1>1, <2>1, <2>4, MoveKeeps DEF CatalogEntry
<1>5. CASE PutTopic(c)
  <2>0. o.pc = "put topic" /\ o.entry = wanted[c].by
    BY <1>1, <1>5 DEF CallOK, SeenOK, PutTopic
  <2>1. CASE store.topic = Nobody
    <3>1. /\ r \in CallRec /\ call' = [call EXCEPT ![c] = r] /\ r.gen = o.gen /\ r.entry = o.entry
          /\ r.pc = "put id"
      <4>1. call' = [call EXCEPT ![c] = [o EXCEPT !.pc = "put id"]]
        BY <1>1, <1>5, <2>1 DEF PutTopic, Goto, CallRec
      <4> QED BY <1>1, <4>1 DEF CallRec
    <3>2. store'.topic = wanted[c].by
      BY <1>0, <1>1, <2>0, <2>1 DEF Written, StoreRec, PutAbsent
    <3> HIDE DEF r
    <3>3. CallOK(c, wanted[c].op, wanted[c].by, r, "nothing", store', guards'[At(c)], gen[At(c)], Gone(At(c)))
      BY <1>0, <1>1, <1>2, <1>3, <2>0, <3>1, <3>2
         DEF CallOK, PlaceOK, LockOK, WriteOK, SeenOK, Stage, Finding, Ended, Deleting
    <3> QED BY <1>0, <1>1, <2>1, <3>1, <3>3, MoveKeeps DEF CatalogEntry
  <2>2. CASE store.topic # Nobody
    <3>1. /\ r \in CallRec /\ call' = [call EXCEPT ![c] = r] /\ r.gen = o.gen /\ r.pc = "race"
      <4>1. call' = [call EXCEPT ![c] = [o EXCEPT !.pc = "race"]]
        BY <1>1, <1>5, <2>2 DEF PutTopic, Goto, CallRec
      <4> QED BY <1>1, <4>1 DEF CallRec
    <3> HIDE DEF r
    <3>2. CallOK(c, wanted[c].op, wanted[c].by, r, "nothing", store', guards'[At(c)], gen[At(c)], Gone(At(c)))
      BY <1>0, <1>1, <1>2, <1>3, <3>1
         DEF CallOK, PlaceOK, LockOK, WriteOK, SeenOK, Stage, Finding, Ended, Deleting
    <3> QED BY <1>0, <1>1, <3>1, <3>2, MoveKeeps DEF CatalogEntry
  <2> QED BY <2>1, <2>2
<1>6. CASE PutId(c)
  <2>1. /\ r \in CallRec /\ call' = [call EXCEPT ![c] = r] /\ r.gen = o.gen /\ r.entry = o.entry
        /\ r.pc = "created?"
    <3>1. call' = [call EXCEPT ![c] = [o EXCEPT !.pc = "created?"]]
      BY <1>1, <1>6 DEF PutId, Goto, CallRec
    <3> QED BY <1>1, <3>1 DEF CallRec
  <2>2. o.entry = wanted[c].by /\ o.pc = "put id" /\ (store.tombstone = Nobody => store.topic = wanted[c].by)
    BY <1>1, <1>6 DEF CallOK, SeenOK, PutId
  <2>3. store'.id /\ store'.tombstone = store.tombstone /\ store'.topic = store.topic
    BY <1>0, <1>1, <2>2 DEF Written, StoreRec
  <2>4. Claims(c)
    BY <2>2 DEF Claims
  <2> HIDE DEF r
  <2>5. CallOK(c, wanted[c].op, wanted[c].by, r, "nothing", store', guards'[At(c)], gen[At(c)], Gone(At(c)))
    BY <1>0, <1>1, <1>2, <1>3, <2>1, <2>2, <2>3
       DEF CallOK, PlaceOK, LockOK, WriteOK, SeenOK, Stage, Finding, Ended, Deleting
  <2> QED BY <1>0, <1>1, <2>1, <2>4, <2>5, MoveKeeps DEF CatalogEntry
<1>7. CASE HealId(c)
  <2>1. /\ r \in CallRec /\ call' = [call EXCEPT ![c] = r] /\ r.gen = o.gen /\ r.pc = "find" /\ r.ret = "raced"
    <3>1. call' = [call EXCEPT ![c] = [o EXCEPT !.pc = "find", !.ret = "raced"]]
      BY <1>1, <1>7 DEF HealId, Finds, CallRec
    <3> QED BY <1>1, <3>1 DEF CallRec
  <2> HIDE DEF r
  <2>2. CallOK(c, wanted[c].op, wanted[c].by, r, "nothing", store', guards'[At(c)], gen[At(c)], Gone(At(c)))
    BY <1>0, <1>1, <1>2, <1>3, <2>1
       DEF CallOK, PlaceOK, LockOK, WriteOK, SeenOK, Stage, Finding, Ended, Deleting, Returns
  <2> QED BY <1>0, <1>1, <2>1, <2>2, MoveKeeps DEF CatalogEntry
<1> QED BY <1>4, <1>5, <1>6, <1>7

(* The writes of a delete and of an alter.                                 *)
LEMMA OtherPutsKeep ==
    ASSUME CatalogInv, NEW c \in Caller, PutTombstone(c) \/ Purge(c) \/ PutRetention(c)
    PROVE  CatalogInv'
<1> DEFINE o == call[c]
<1> DEFINE r == call'[c]
<1>0. /\ UNCHANGED <<cache, gen, guards, grants, wanted, late, told>> /\ o.pc \in Writing
      /\ store' = Written(o.pc, o.entry) /\ o.pc \in {"put tombstone", "purge", "put retention"}
  BY DEF PutTombstone, Purge, PutRetention, Puts, Writing, CatalogEntry
<1>1. /\ o \in CallRec /\ call \in [Caller -> CallRec] /\ told[c] = "nothing" /\ store \in StoreRec
      /\ CallOK(c, wanted[c].op, wanted[c].by, o, "nothing", store, guards[At(c)], gen[At(c)], Gone(At(c)))
      /\ {"purge", "deleted?", "forget", "find", "altered"} \subseteq Words
  BY <1>0, Here, AreWords
<1>2. /\ o.pc \in {"put tombstone", "purge"} => wanted[c].op = "delete" /\ guards[At(c)].writer = c
      /\ o.pc = "put retention" => wanted[c].op = "alter" /\ guards[At(c)].writer = c
      /\ o.pc = "put tombstone" => o.entry \in Creators
  BY <1>0, <1>1 DEF CallOK, PlaceOK, LockOK, WriteOK, Stage, Finding, Ended, Deleting
<1>3. CASE PutTombstone(c)
  <2>0. o.pc = "put tombstone"
    BY <1>3 DEF PutTombstone
  <2>1. CASE store.tombstone = Nobody
    <3>1. /\ r \in CallRec /\ call' = [call EXCEPT ![c] = r] /\ r.gen = o.gen /\ r.entry = o.entry
          /\ r.pc = "purge"
      <4>1. call' = [call EXCEPT ![c] = [o EXCEPT !.pc = "purge"]]
        BY <1>1, <1>3, <2>1 DEF PutTombstone, Goto, CallRec
      <4> QED BY <1>1, <4>1 DEF CallRec
    <3>2. store'.tombstone = o.entry
      BY <1>0, <1>1, <2>0, <2>1 DEF Written, StoreRec, PutAbsent
    <3>3. store'.tombstone # Nobody
      BY <1>2, <2>0, <3>2, CatalogAssumption
    <3> HIDE DEF r
    <3>4. CallOK(c, wanted[c].op, wanted[c].by, r, "nothing", store', guards'[At(c)], gen[At(c)], Gone(At(c)))
      BY <1>0, <1>1, <1>2, <2>0, <3>1, <3>3
         DEF CallOK, PlaceOK, LockOK, WriteOK, SeenOK, BlindOK, Stage, Finding, Ended, Deleting, Reads
    <3> QED BY <1>0, <1>1, <3>1, <3>4, MoveKeeps DEF CatalogEntry
  <2>2. CASE store.tombstone # Nobody
    <3>1. r \in CallRec /\ call' = [call EXCEPT ![c] = r] /\ r.gen = o.gen /\ r.pc = "deleted?"
      <4>1. call' = [call EXCEPT ![c] = [o EXCEPT !.pc = "deleted?"]]
        BY <1>1, <1>3, <2>2 DEF PutTombstone, Goto, CallRec
      <4> QED BY <1>1, <4>1 DEF CallRec
    <3> HIDE DEF r
    <3>2. CallOK(c, wanted[c].op, wanted[c].by, r, "nothing", store', guards'[At(c)], gen[At(c)], Gone(At(c)))
      BY <1>0, <1>1, <1>2, <2>0, <3>1
         DEF CallOK, PlaceOK, LockOK, WriteOK, SeenOK, BlindOK, Stage, Finding, Ended, Deleting, Reads
    <3> QED BY <1>0, <1>1, <3>1, <3>2, MoveKeeps DEF CatalogEntry
  <2> QED BY <2>1, <2>2
<1>4. CASE Purge(c)
  <2>0. o.pc = "purge" /\ store.tombstone # Nobody
    BY <1>1, <1>4 DEF Purge, CallOK, WriteOK
  <2>1. r \in CallRec /\ call' = [call EXCEPT ![c] = r] /\ r.gen = o.gen /\ r.pc = "forget"
    <3>1. call' = [call EXCEPT ![c] = [o EXCEPT !.pc = "forget"]]
      BY <1>1, <1>4 DEF Purge, Goto, CallRec
    <3> QED BY <1>1, <3>1 DEF CallRec
  <2>2. store'.tombstone # Nobody
    BY <1>0, <1>1, <2>0 DEF Written, StoreRec
  <2> HIDE DEF r
  <2>3. CallOK(c, wanted[c].op, wanted[c].by, r, "nothing", store', guards'[At(c)], gen[At(c)], Gone(At(c)))
    BY <1>0, <1>1, <1>2, <2>0, <2>1, <2>2
       DEF CallOK, PlaceOK, LockOK, WriteOK, SeenOK, BlindOK, Stage, Finding, Ended, Deleting, Reads
  <2> QED BY <1>0, <1>1, <2>1, <2>3, MoveKeeps DEF CatalogEntry
<1>5. CASE PutRetention(c)
  <2>0. o.pc = "put retention"
    BY <1>5 DEF PutRetention
  <2>1. /\ r \in CallRec /\ call' = [call EXCEPT ![c] = r] /\ r.gen = o.gen /\ r.pc = "find" /\ r.ret = "altered"
    <3>1. call' = [call EXCEPT ![c] = [o EXCEPT !.pc = "find", !.ret = "altered"]]
      BY <1>1, <1>5 DEF PutRetention, Finds, CallRec
    <3> QED BY <1>1, <3>1 DEF CallRec
  <2> HIDE DEF r
  <2>2. CallOK(c, wanted[c].op, wanted[c].by, r, "nothing", store', guards'[At(c)], gen[At(c)], Gone(At(c)))
    BY <1>0, <1>1, <1>2, <2>0, <2>1
       DEF CallOK, PlaceOK, LockOK, WriteOK, SeenOK, BlindOK, Stage, Finding, Past, Ended, Deleting, Reads, Returns
  <2> QED BY <1>0, <1>1, <2>1, <2>2, MoveKeeps DEF CatalogEntry
<1> QED BY <1>3, <1>4, <1>5

(* The end of a call, with what it leaves in its broker's cache and grants.*)
LEMMA TellKeeps ==
    ASSUME CatalogInv, NEW c \in Caller, NEW t \in Words, Tells(c, t), wanted' = wanted,
           NEW q \in CacheRec, NEW g \in Nat, NEW a \in SUBSET Creators,
           cache' = [cache EXCEPT ![At(c)] = q], Gone(At(c)) => q.entry = Nobody,
           gen' = [gen EXCEPT ![At(c)] = g], gen[At(c)] <= g,
           grants' = [grants EXCEPT ![At(c)] = a],
           t = "deleted" \/ (\E d \in Caller : At(d) = At(c) /\ told[d] = "deleted") => a = {},
           store' = store \/ (call[c].pc = "withdraw" /\ store' = Written(call[c].pc, CatalogEntry(c))),
           late' \subseteq late \cup InFlight(c), call[c].pc \notin {"start", "done"},
           t = "deleted" <=> call[c].pc = "revoke", t = "created" => call[c].pc = "grant"
    PROVE  CatalogInv'
<1> DEFINE o == call[c]
<1> DEFINE r == call'[c]
<1>1. /\ o \in CallRec /\ call \in [Caller -> CallRec] /\ told[c] = "nothing" /\ store \in StoreRec
      /\ CallOK(c, wanted[c].op, wanted[c].by, o, "nothing", store, guards[At(c)], gen[At(c)], Gone(At(c)))
      /\ "done" \in Words /\ gen[At(c)] \in Nat
      /\ wanted[c].op \in {"create", "hydrate"} => wanted[c].by \in Creators
  BY Here, AreWords
<1>2. r \in CallRec /\ call' = [call EXCEPT ![c] = r] /\ r.gen = o.gen /\ r.pc = "done"
  <2>1. call' = [call EXCEPT ![c] = [o EXCEPT !.pc = "done"]]
    BY <1>1 DEF Tells, Goto, CallRec
  <2> QED BY <1>1, <2>1 DEF CallRec
<1>3. told' = [told EXCEPT ![c] = t] /\ Unlocks(c)
  BY DEF Tells
<1>4. r.gen <= g
  <2>1. o.gen \in Nat /\ o.gen <= gen[At(c)]
    BY <1>1 DEF CallOK, CallRec
  <2> HIDE DEF r
  <2> QED BY <1>1, <1>2, <2>1
<1>5. t = "created" => /\ wanted[c].by \in Creators
                       /\ store.tombstone = Nobody => store.topic = wanted[c].by /\ store.id
  BY <1>1 DEF CallOK, SeenOK, PlaceOK, Stage, Finding, Ended, Deleting
<1>6. t = "deleted" => store.tombstone # Nobody
  BY <1>1 DEF CallOK, SeenOK
<1> HIDE DEF r
<1>7. CallOK(c, wanted[c].op, wanted[c].by, r, t, store', guards'[At(c)], g, Gone(At(c)))
  BY <1>2, <1>4, <1>5, <1>6 DEF CallOK, PlaceOK, LockOK, WriteOK, SeenOK, BlindOK, Stage, Finding, Past,
                                Ended, Deleting
<1>8. /\ r.pc = "revoke" \/ t = "deleted" <=> IsGone(c)
      /\ r.pc = "grant" \/ t = "created" => Grant(c)
      /\ r.pc \in {"put id", "created?", "grant"} \/ t = "created" => Claims(c)
  BY <1>1, <1>2 DEF IsGone, Grant, Claims
<1>9. store' = store \/ (call[c].pc \in Writing /\ store' = Written(call[c].pc, CatalogEntry(c)))
  BY DEF Writing
<1> QED
  BY <1>1, <1>2, <1>3, <1>7, <1>8, <1>9, ActKeeps

(* A broker's cache, generation and grants that stay.                      *)
LEMMA StaysPut ==
    ASSUME CatalogInv, NEW c \in Caller
    PROVE  /\ cache[At(c)] \in CacheRec /\ (Gone(At(c)) => cache[At(c)].entry = Nobody)
           /\ grants[At(c)] \in SUBSET Creators /\ gen[At(c)] \in Nat /\ gen[At(c)] <= gen[At(c)]
           /\ (\E d \in Caller : At(d) = At(c) /\ told[d] = "deleted") => grants[At(c)] = {}
           /\ cache' = cache => cache' = [cache EXCEPT ![At(c)] = cache[At(c)]]
           /\ gen' = gen => gen' = [gen EXCEPT ![At(c)] = gen[At(c)]]
           /\ grants' = grants => grants' = [grants EXCEPT ![At(c)] = grants[At(c)]]
<1>1. At(c) \in Broker /\ gen[At(c)] \in Nat
  BY Here
<1>2. gen[At(c)] <= gen[At(c)]
  BY Zenon, <1>1, NatSame
<1>3. /\ cache[At(c)] \in CacheRec /\ (Gone(At(c)) => cache[At(c)].entry = Nobody)
      /\ grants[At(c)] \in SUBSET Creators
      /\ (\E d \in Caller : At(d) = At(c) /\ told[d] = "deleted") => grants[At(c)] = {}
  BY <1>1 DEF CatalogInv, TopicTypes, BrokerOK
<1>4. /\ cache' = cache => cache' = [cache EXCEPT ![At(c)] = cache[At(c)]]
      /\ gen' = gen => gen' = [gen EXCEPT ![At(c)] = gen[At(c)]]
      /\ grants' = grants => grants' = [grants EXCEPT ![At(c)] = grants[At(c)]]
  BY <1>1 DEF CatalogInv, TopicTypes
<1> QED BY <1>1, <1>2, <1>3, <1>4

(* What forgetting leaves.                                                 *)
LEMMA ForgetLeaves ==
    ASSUME CatalogInv, NEW c \in Caller, ForgetTopic(At(c))
    PROVE  /\ NoServed \in CacheRec /\ NoServed.entry = Nobody /\ cache' = [cache EXCEPT ![At(c)] = NoServed]
           /\ gen[At(c)] + 1 \in Nat /\ gen[At(c)] <= gen[At(c)] + 1
           /\ gen' = [gen EXCEPT ![At(c)] = gen[At(c)] + 1]
<1>1. At(c) \in Broker /\ gen[At(c)] \in Nat
  BY Here
<1> QED
  BY <1>1, NameKinds DEF ForgetTopic, NoServed, CacheRec

(* The ends that leave the broker as it is.                                *)
LEMMA QuietTellKeeps ==
    ASSUME CatalogInv, NEW c \in Caller,
           \/ CreateReserved(c) \/ Withdraw(c) \/ DeleteMissing(c) \/ AlterUnknown(c)
           \/ Journal(c) \/ ListedNone(c)
    PROVE  CatalogInv'
<1>1. PICK t \in {"reserved", "missing", "unknown", "altered", "hydrated"} : Tells(c, t)
  BY DEF CreateReserved, Withdraw, DeleteMissing, AlterUnknown, Journal, ListedNone
<1>2. /\ UNCHANGED <<cache, gen, grants, wanted, late>>
      /\ store' = store \/ (call[c].pc = "withdraw" /\ store' = Written(call[c].pc, CatalogEntry(c)))
      /\ call[c].pc \notin {"start", "done", "revoke"}
  BY DEF CreateReserved, Withdraw, DeleteMissing, AlterUnknown, Journal, ListedNone
<1>3. t \in Words /\ t # "deleted" /\ t # "created"
  BY AreWords
<1> QED
  BY <1>1, <1>2, <1>3, StaysPut, TellKeeps

(* The ends that grant or revoke.                                          *)
LEMMA GrantTellKeeps ==
    ASSUME CatalogInv, NEW c \in Caller, Granted(c) \/ Revoke(c) \/ Hydrated(c)
    PROVE  CatalogInv'
<1> DEFINE o == call[c]
<1>1. /\ UNCHANGED <<store, cache, gen, wanted, late>> /\ o.pc \in {"grant", "revoke", "hydrate"}
  BY DEF Granted, Revoke, Hydrated
<1>2. /\ CallOK(c, wanted[c].op, wanted[c].by, o, "nothing", store, guards[At(c)], gen[At(c)], Gone(At(c)))
      /\ At(c) \in Broker /\ (wanted[c].op \in {"create", "hydrate"} => wanted[c].by \in Creators)
      /\ grants[At(c)] \in SUBSET Creators
      /\ {"created", "deleted", "hydrated"} \subseteq Words
  BY <1>1, Here, StaysPut, AreWords
<1>3. ASSUME \E d \in Caller : At(d) = At(c) /\ told[d] = "deleted" PROVE Gone(At(c)) /\ grants[At(c)] = {}
  BY <1>3, StaysPut DEF Gone, IsGone
<1>4. CASE Granted(c)
  <2> DEFINE a == grants[At(c)] \cup {wanted[c].by}
  <2>0. o.pc = "grant" /\ wanted[c].op = "create" /\ ~Gone(At(c))
    BY <1>2, <1>4 DEF Granted, CallOK, PlaceOK, BlindOK, Stage, Finding, Ended, Deleting
  <2>1. grants' = [grants EXCEPT ![At(c)] = a] /\ a \in SUBSET Creators
    BY <1>2, <1>4, <2>0 DEF Granted
  <2>2. PICK t \in Words : t = "created" /\ Tells(c, t)
    BY <1>2, <1>4 DEF Granted
  <2> HIDE DEF a
  <2>3. /\ t = "deleted" \/ (\E d \in Caller : At(d) = At(c) /\ told[d] = "deleted") => a = {}
        /\ o.pc \notin {"start", "done"} /\ (t = "deleted" <=> o.pc = "revoke") /\ (t = "created" => o.pc = "grant")
    BY <1>3, <2>0, <2>2
  <2> QED
    BY <1>1, <2>1, <2>2, <2>3, StaysPut, TellKeeps
<1>5. CASE Revoke(c)
  <2>1. grants' = [grants EXCEPT ![At(c)] = {}] /\ o.pc = "revoke" /\ {} \in SUBSET Creators
    BY <1>5 DEF Revoke
  <2>2. PICK t \in Words : t = "deleted" /\ Tells(c, t)
    BY <1>2, <1>5 DEF Revoke
  <2>3. o.pc \notin {"start", "done"} /\ (t = "deleted" <=> o.pc = "revoke") /\ (t = "created" => o.pc = "grant")
    BY <2>1, <2>2
  <2> QED
    BY <1>1, <2>1, <2>2, <2>3, StaysPut, TellKeeps
<1>6. CASE Hydrated(c)
  <2> DEFINE a == IF o.entry = Nobody THEN {} ELSE grants[At(c)] \cup {wanted[c].by}
  <2>0. o.pc = "hydrate" /\ wanted[c].op = "hydrate" /\ (Gone(At(c)) => o.entry = Nobody)
    BY <1>2, <1>6 DEF Hydrated, CallOK, PlaceOK, BlindOK, Stage, Finding, Ended, Deleting
  <2>1. /\ grants' = [grants EXCEPT ![At(c)] = a] /\ a \in SUBSET Creators
        /\ Gone(At(c)) => a = {}
    BY <1>2, <1>6, <2>0 DEF Hydrated, CatalogEntry
  <2>2. PICK t \in Words : t = "hydrated" /\ Tells(c, t)
    BY <1>2, <1>6 DEF Hydrated
  <2> HIDE DEF a
  <2>3. /\ t = "deleted" \/ (\E d \in Caller : At(d) = At(c) /\ told[d] = "deleted") => a = {}
        /\ o.pc \notin {"start", "done"} /\ (t = "deleted" <=> o.pc = "revoke") /\ (t = "created" => o.pc = "grant")
    BY <1>3, <2>0, <2>1, <2>2
  <2> QED
    BY <1>1, <2>1, <2>2, <2>3, StaysPut, TellKeeps
<1> QED BY <1>4, <1>5, <1>6

(* What is remembered is nothing at a broker that has forgotten.           *)
LEMMA RememberLeaves ==
    ASSUME CatalogInv, NEW c \in Caller,
           Gone(At(c)) /\ call[c].gen = gen[At(c)] => call[c].entry = Nobody
    PROVE  /\ RememberIf(At(c), CatalogEntry(c), call[c].gen) \in CacheRec
           /\ Gone(At(c)) => RememberIf(At(c), CatalogEntry(c), call[c].gen).entry = Nobody
<1>1. /\ cache[At(c)] \in CacheRec /\ (Gone(At(c)) => cache[At(c)].entry = Nobody) /\ call[c].entry \in Names
  BY Here, StaysPut DEF CallRec
<1>2. CASE gen[At(c)] = call[c].gen
  <2>1. RememberIf(At(c), CatalogEntry(c), call[c].gen) = [entry |-> call[c].entry, fresh |-> TRUE]
    BY <1>2 DEF RememberIf, CatalogEntry
  <2> QED BY <1>1, <1>2, <2>1 DEF CacheRec
<1>3. CASE gen[At(c)] # call[c].gen
  <2>1. RememberIf(At(c), CatalogEntry(c), call[c].gen) = cache[At(c)]
    BY <1>3 DEF RememberIf
  <2> QED BY <1>1, <2>1
<1> QED BY <1>2, <1>3

(* The cache of c's broker after c has remembered or not.                  *)
LEMMA CacheLeaves ==
    ASSUME CatalogInv, NEW c \in Caller, call[c].pc \in {"served", "raced", "created?"},
           cache' = cache \/ cache' = [cache EXCEPT ![At(c)] = RememberIf(At(c), CatalogEntry(c), call[c].gen)]
    PROVE  /\ cache'[At(c)] \in CacheRec /\ cache' = [cache EXCEPT ![At(c)] = cache'[At(c)]]
           /\ Gone(At(c)) => cache'[At(c)].entry = Nobody
<1>1. /\ CallOK(c, wanted[c].op, wanted[c].by, call[c], told[c], store, guards[At(c)], gen[At(c)], Gone(At(c)))
      /\ At(c) \in Broker
  BY Here
<1>2. Gone(At(c)) /\ call[c].gen = gen[At(c)] => call[c].entry = Nobody
  BY <1>1 DEF CallOK, PlaceOK, BlindOK, Stage, Finding, Ended, Deleting
<1>3. CASE cache' = cache
  BY <1>1, <1>3, StaysPut DEF CatalogInv, TopicTypes
<1>4. CASE cache' = [cache EXCEPT ![At(c)] = RememberIf(At(c), CatalogEntry(c), call[c].gen)]
  <2> DEFINE q == RememberIf(At(c), CatalogEntry(c), call[c].gen)
  <2>1. q \in CacheRec /\ (Gone(At(c)) => q.entry = Nobody)
    BY <1>2, RememberLeaves
  <2> HIDE DEF q
  <2>2. cache' = [cache EXCEPT ![At(c)] = q]
    BY <1>4 DEF q
  <2>3. cache \in [Broker -> CacheRec]
    BY DEF CatalogInv, TopicTypes
  <2> QED BY <1>1, <2>1, <2>2, <2>3
<1> QED BY <1>3, <1>4

(* The ends that remember.                                                 *)
LEMMA RememberTellKeeps ==
    ASSUME CatalogInv, NEW c \in Caller, NEW t \in {"exists", "served", "unknown"}, Tells(c, t),
           UNCHANGED <<store, gen, grants, wanted, late>>, call[c].pc \in {"served", "raced"},
           cache' = cache \/ cache' = [cache EXCEPT ![At(c)] = RememberIf(At(c), CatalogEntry(c), call[c].gen)]
    PROVE  CatalogInv'
<1> DEFINE q == cache'[At(c)]
<1>1. q \in CacheRec /\ cache' = [cache EXCEPT ![At(c)] = q] /\ (Gone(At(c)) => q.entry = Nobody)
  BY CacheLeaves
<1>2. t \in Words /\ t # "deleted" /\ t # "created" /\ call[c].pc \notin {"start", "done", "revoke"}
  BY AreWords
<1>3. (\E d \in Caller : At(d) = At(c) /\ told[d] = "deleted") => grants[At(c)] = {}
  BY StaysPut
<1> HIDE DEF q
<1> QED
  BY <1>1, <1>2, <1>3, StaysPut, TellKeeps

(* The moves that remember.                                                *)
LEMMA RememberMoveKeeps ==
    ASSUME CatalogInv, NEW c \in Caller, NEW r \in CallRec, call' = [call EXCEPT ![c] = r],
           UNCHANGED <<store, gen, grants, wanted, late, guards, told>>,
           call[c].pc \in {"served", "raced", "created?"},
           cache' = cache \/ cache' = [cache EXCEPT ![At(c)] = RememberIf(At(c), CatalogEntry(c), call[c].gen)],
           r.pc \notin {"revoke", "put id", "created?"},
           r.pc = "grant" => call[c].pc = "created?" /\ store.tombstone = Nobody,
           CallOK(c, wanted[c].op, wanted[c].by, r, "nothing", store, guards[At(c)], gen[At(c)], Gone(At(c)))
    PROVE  CatalogInv'
<1> DEFINE q == cache'[At(c)]
<1>1. q \in CacheRec /\ cache' = [cache EXCEPT ![At(c)] = q] /\ (Gone(At(c)) => q.entry = Nobody)
  BY CacheLeaves
<1>2. /\ told[c] = "nothing" /\ told \in [Caller -> Words] /\ "nothing" \in Words
  BY Here, AreWords DEF CatalogInv, TopicTypes
<1>3. told' = [told EXCEPT ![c] = "nothing"]
  BY <1>2
<1>4. ~IsGone(c) /\ (r.pc = "grant" => Claims(c))
  BY <1>2 DEF IsGone, Claims
<1>5. (\E d \in Caller : At(d) = At(c) /\ told[d] = "deleted") => grants[At(c)] = {}
  BY StaysPut
<1> HIDE DEF q
<1> QED
  BY ZenonT(30), <1>1, <1>2, <1>3, <1>4, <1>5, StaysPut, ActKeeps

(* What remembers.                                                         *)
LEMMA RememberKeeps ==
    ASSUME CatalogInv, NEW c \in Caller, Created(c) \/ Raced(c) \/ LookedUp(c) \/ AlterServed(c)
    PROVE  CatalogInv'
<1> DEFINE o == call[c]
<1> DEFINE r == call'[c]
<1>0. /\ UNCHANGED <<store, gen, grants, wanted, late>> /\ o.pc \in {"served", "raced", "created?"}
      /\ cache' = cache \/ cache' = [cache EXCEPT ![At(c)] = RememberIf(At(c), CatalogEntry(c), call[c].gen)]
  BY DEF Created, Raced, LookedUp, AlterServed
<1>1. /\ o \in CallRec /\ call \in [Caller -> CallRec] /\ told[c] = "nothing" /\ store \in StoreRec
      /\ CallOK(c, wanted[c].op, wanted[c].by, o, "nothing", store, guards[At(c)], gen[At(c)], Gone(At(c)))
      /\ {"grant", "race", "find", "alter"} \subseteq Words
      /\ wanted[c].op \in {"create", "hydrate"} => wanted[c].by \in Creators
      /\ Gone(At(c)) => store.tombstone # Nobody
  BY <1>0, Here, AreWords
<1>2. CASE Created(c)
  <2>1. call' = [call EXCEPT ![c] = [o EXCEPT !.pc = "grant"]]
    BY <1>1, <1>2 DEF Created, Goto, CallRec
  <2>2. r \in CallRec /\ call' = [call EXCEPT ![c] = r] /\ r.gen = o.gen /\ r.pc = "grant" /\ r.entry = o.entry
    BY <1>1, <2>1 DEF CallRec
  <2>3. /\ o.pc = "created?" /\ store.tombstone = Nobody /\ UNCHANGED <<guards, told>>
    BY <1>2 DEF Created
  <2> HIDE DEF r
  <2>4. wanted[c].op = "create" /\ c \in guards[At(c)].readers
    BY <1>1, <2>3 DEF CallOK, PlaceOK, LockOK, Stage, Finding, Ended, Deleting, Reads
  <2>5. CallOK(c, wanted[c].op, wanted[c].by, r, "nothing", store, guards[At(c)], gen[At(c)], Gone(At(c)))
    BY <1>1, <2>2, <2>3, <2>4 DEF CallOK, PlaceOK, LockOK, WriteOK, SeenOK, Stage, Finding, Ended, Deleting
  <2> QED BY <1>0, <2>2, <2>3, <2>5, RememberMoveKeeps
<1>3. CASE Raced(c) /\ CatalogEntry(c) = Nobody
  <2>1. call' = [call EXCEPT ![c] = [o EXCEPT !.pc = "race"]]
    BY <1>1, <1>3 DEF Raced, Goto, CallRec
  <2>2. r \in CallRec /\ call' = [call EXCEPT ![c] = r] /\ r.gen = o.gen /\ r.pc = "race"
    BY <1>1, <2>1 DEF CallRec
  <2>3. /\ o.pc = "raced" /\ UNCHANGED <<guards, told>>
    BY <1>3 DEF Raced
  <2> HIDE DEF r
  <2>4. wanted[c].op = "create" /\ c \in guards[At(c)].readers /\ ~Gone(At(c))
    BY <1>1, <2>3 DEF CallOK, PlaceOK, LockOK, BlindOK, Stage, Finding, Ended, Deleting, Reads
  <2>5. CallOK(c, wanted[c].op, wanted[c].by, r, "nothing", store, guards[At(c)], gen[At(c)], Gone(At(c)))
    BY <1>1, <2>2, <2>3, <2>4 DEF CallOK, PlaceOK, LockOK, WriteOK, SeenOK, Stage, Finding, Ended, Deleting
  <2> QED BY <1>0, <2>2, <2>3, <2>5, RememberMoveKeeps
<1>4. CASE Raced(c) /\ CatalogEntry(c) # Nobody
  <2>1. Tells(c, "exists") /\ o.pc = "raced"
    BY <1>4 DEF Raced
  <2> QED BY <1>0, <2>1, RememberTellKeeps
<1>5. CASE LookedUp(c)
  <2>1. Tells(c, "served") \/ Tells(c, "unknown")
    BY <1>5 DEF LookedUp
  <2>2. o.pc = "served"
    BY <1>5 DEF LookedUp
  <2> QED BY <1>0, <2>1, <2>2, RememberTellKeeps
<1>6. CASE AlterServed(c) /\ Tells(c, "unknown")
  <2>1. o.pc = "served"
    BY <1>6 DEF AlterServed
  <2> QED BY <1>0, <1>6, <2>1, RememberTellKeeps
<1>7. CASE AlterServed(c) /\ Finds(c, "alter") /\ UNCHANGED <<guards, told>>
  <2>1. call' = [call EXCEPT ![c] = [o EXCEPT !.pc = "find", !.ret = "alter"]]
    BY <1>1, <1>7 DEF Finds, CallRec
  <2>2. r \in CallRec /\ call' = [call EXCEPT ![c] = r] /\ r.gen = o.gen /\ r.pc = "find" /\ r.ret = "alter"
    BY <1>1, <2>1 DEF CallRec
  <2>3. o.pc = "served" /\ wanted[c].op = "alter"
    BY <1>7 DEF AlterServed
  <2> HIDE DEF r
  <2>4. guards[At(c)].writer = c
    BY <1>1, <2>3 DEF CallOK, LockOK, Stage, Finding, Ended
  <2>5. CallOK(c, wanted[c].op, wanted[c].by, r, "nothing", store, guards[At(c)], gen[At(c)], Gone(At(c)))
    BY <1>1, <2>2, <2>3, <2>4
       DEF CallOK, PlaceOK, LockOK, WriteOK, SeenOK, BlindOK, Stage, Finding, Past, Returns, Ended, Deleting, Reads
  <2> QED BY <1>0, <1>7, <2>2, <2>3, <2>5, RememberMoveKeeps
<1>8. AlterServed(c) => Tells(c, "unknown") \/ (Finds(c, "alter") /\ UNCHANGED <<guards, told>>)
  BY DEF AlterServed
<1> QED BY <1>2, <1>3, <1>4, <1>5, <1>6, <1>7, <1>8

(* A delete that failed, or was dropped: it looks, and evicts.             *)
LEMMA ReconcileKeeps ==
    ASSUME CatalogInv, NEW c \in Caller, EvictAbsent(c) \/ Reconcile(c)
    PROVE  CatalogInv'
<1> DEFINE o == call[c]
<1> DEFINE r == call'[c]
<1> DEFINE q == cache'[At(c)]
<1> DEFINE g == gen'[At(c)]
<1>0. /\ UNCHANGED <<store, wanted, late>> /\ o.pc \in {"evict", "reconcile"}
      /\ ForgetTopic(At(c)) \/ UNCHANGED <<cache, gen>>
  BY DEF EvictAbsent, Reconcile
<1>1. /\ o \in CallRec /\ call \in [Caller -> CallRec] /\ told[c] = "nothing" /\ store \in StoreRec
      /\ CallOK(c, wanted[c].op, wanted[c].by, o, "nothing", store, guards[At(c)], gen[At(c)], Gone(At(c)))
      /\ {"find", "reconcile", "failed", "nothing"} \subseteq Words /\ At(c) \in Broker
      /\ told \in [Caller -> Words] /\ cache \in [Broker -> CacheRec] /\ gen \in [Broker -> Nat]
      /\ gen[At(c)] \in Nat
  BY <1>0, Here, AreWords DEF CatalogInv, TopicTypes
<1>2. /\ q \in CacheRec /\ cache' = [cache EXCEPT ![At(c)] = q] /\ (Gone(At(c)) => q.entry = Nobody)
      /\ g \in Nat /\ gen' = [gen EXCEPT ![At(c)] = g] /\ gen[At(c)] <= g
  <2>1. CASE UNCHANGED <<cache, gen>>
    BY <1>1, <2>1, StaysPut
  <2>2. CASE ForgetTopic(At(c))
    BY <1>1, <2>2, ForgetLeaves
  <2> QED BY <1>0, <2>1, <2>2
<1>3. CASE EvictAbsent(c)
  <2>1. call' = [call EXCEPT ![c] = [o EXCEPT !.pc = "find", !.ret = "reconcile"]]
    BY <1>1, <1>3 DEF EvictAbsent, Finds, CallRec
  <2>2. r \in CallRec /\ call' = [call EXCEPT ![c] = r] /\ r.gen = o.gen /\ r.pc = "find" /\ r.ret = "reconcile"
    BY <1>1, <2>1 DEF CallRec
  <2>3. o.pc = "evict" /\ UNCHANGED <<grants, told>> /\ Unlocks(c)
    BY <1>3 DEF EvictAbsent
  <2>4. told' = [told EXCEPT ![c] = "nothing"]
    BY <1>1, <2>3
  <2>5. wanted[c].op = "delete"
    BY <1>1, <2>3 DEF CallOK, PlaceOK, Stage, Finding, Ended, Deleting
  <2> HIDE DEF r, q, g
  <2>6. r.gen <= g
    <3>1. o.gen \in Nat /\ o.gen <= gen[At(c)]
      BY <1>1 DEF CallOK, CallRec
    <3> QED BY <1>1, <1>2, <2>2, <3>1
  <2>7. CallOK(c, wanted[c].op, wanted[c].by, r, "nothing", store', guards'[At(c)], g, Gone(At(c)))
    BY <2>2, <2>5, <2>6
       DEF CallOK, PlaceOK, LockOK, WriteOK, SeenOK, BlindOK, Stage, Finding, Returns, Ended, Deleting, Reads
  <2>8. ~IsGone(c)
    BY <1>1, <2>3 DEF IsGone
  <2>9. (\E d \in Caller : At(d) = At(c) /\ told[d] = "deleted") => grants[At(c)] = {}
    BY StaysPut
  <2> QED
    BY <1>0, <1>1, <1>2, <2>2, <2>3, <2>4, <2>7, <2>8, <2>9, StaysPut, ActKeeps
<1>4. CASE Reconcile(c)
  <2> DEFINE a == grants'[At(c)]
  <2>1. o.pc = "reconcile"
    BY <1>4 DEF Reconcile
  <2>2. PICK t \in Words : t = "failed" /\ Tells(c, t)
    BY <1>1, <1>4 DEF Reconcile
  <2>3. /\ a \in SUBSET Creators /\ grants' = [grants EXCEPT ![At(c)] = a]
        /\ (\E d \in Caller : At(d) = At(c) /\ told[d] = "deleted") => a = {}
    <3>1. CASE grants' = grants
      BY <1>1, <3>1, StaysPut
    <3>2. CASE grants' = [grants EXCEPT ![At(c)] = {}]
      BY <1>1, <3>2 DEF CatalogInv, TopicTypes
    <3> QED BY <1>4, <3>1, <3>2 DEF Reconcile
  <2>4. /\ t = "deleted" \/ (\E d \in Caller : At(d) = At(c) /\ told[d] = "deleted") => a = {}
        /\ o.pc \notin {"start", "done"} /\ (t = "deleted" <=> o.pc = "revoke") /\ (t = "created" => o.pc = "grant")
    BY <2>1, <2>2, <2>3
  <2> HIDE DEF q, g, a
  <2> QED
    BY <1>0, <1>2, <2>2, <2>3, <2>4, TellKeeps
<1> QED BY <1>3, <1>4

(* A call is dropped where it waits.                                       *)
LEMMA DroppedKeeps ==
    ASSUME CatalogInv, NEW c \in Caller, DroppedTopic(c)
    PROVE  CatalogInv'
<1> DEFINE o == call[c]
<1> DEFINE r == call'[c]
<1>0. /\ UNCHANGED <<store, cache, gen, grants, wanted>> /\ late' \subseteq late \cup InFlight(c)
      /\ o.pc \notin {"start", "done", "revoke"}
  BY DEF DroppedTopic, Waiting, Writing, Deleting
<1>1. /\ o \in CallRec /\ call \in [Caller -> CallRec] /\ told[c] = "nothing" /\ store \in StoreRec
      /\ CallOK(c, wanted[c].op, wanted[c].by, o, "nothing", store, guards[At(c)], gen[At(c)], Gone(At(c)))
      /\ {"find", "reconcile", "failed", "nothing"} \subseteq Words
      /\ told \in [Caller -> Words]
  BY <1>0, Here, AreWords DEF CatalogInv, TopicTypes
<1>2. CASE wanted[c].op # "delete"
  <2>1. PICK t \in Words : t = "failed" /\ Tells(c, t)
    BY <1>1, <1>2 DEF DroppedTopic
  <2>2. (t = "deleted" <=> o.pc = "revoke") /\ t # "created" /\ t # "deleted"
    BY <1>0, <2>1
  <2>3. (\E d \in Caller : At(d) = At(c) /\ told[d] = "deleted") => grants[At(c)] = {}
    BY StaysPut
  <2> QED
    BY ZenonT(30), <1>0, <2>1, <2>2, <2>3, StaysPut, TellKeeps
<1>3. CASE wanted[c].op = "delete"
  <2>0. Unlocks(c) /\ Finds(c, "reconcile") /\ UNCHANGED told
    BY <1>3 DEF DroppedTopic
  <2>1. call' = [call EXCEPT ![c] = [o EXCEPT !.pc = "find", !.ret = "reconcile"]]
    BY <1>1, <2>0 DEF Finds, CallRec
  <2>2. r \in CallRec /\ call' = [call EXCEPT ![c] = r] /\ r.gen = o.gen /\ r.pc = "find" /\ r.ret = "reconcile"
    BY <1>1, <2>1 DEF CallRec
  <2>3. told' = [told EXCEPT ![c] = "nothing"]
    BY <1>1, <2>0
  <2> HIDE DEF r
  <2>4. CallOK(c, wanted[c].op, wanted[c].by, r, "nothing", store', guards'[At(c)], gen[At(c)], Gone(At(c)))
    BY <1>1, <1>3, <2>2
       DEF CallOK, PlaceOK, LockOK, WriteOK, SeenOK, BlindOK, Stage, Finding, Returns, Ended, Deleting, Reads
  <2>5. ~IsGone(c)
    BY <1>0, <1>1 DEF IsGone
  <2>6. (\E d \in Caller : At(d) = At(c) /\ told[d] = "deleted") => grants[At(c)] = {}
    BY StaysPut
  <2> QED
    BY <1>0, <1>1, <2>0, <2>2, <2>3, <2>4, <2>5, <2>6, StaysPut, ActKeeps
<1> QED BY <1>2, <1>3

(* A delete forgets the topic at its broker: no create or hydration is     *)
(* under way there, and no lookup has seen the generation it begins.       *)
LEMMA ForgetKeeps ==
    ASSUME CatalogInv, NEW c \in Caller, ForgetDeleted(c)
    PROVE  CatalogInv'
<1> DEFINE o == call[c]
<1> DEFINE r == call'[c]
<1> DEFINE b == At(c)
<1>0. /\ UNCHANGED <<store, grants, wanted, late, told>> /\ o.pc = "forget" /\ Unlocks(c) /\ ForgetTopic(b)
  BY DEF ForgetDeleted
<1>1. /\ o \in CallRec /\ call \in [Caller -> CallRec] /\ told[c] = "nothing" /\ store \in StoreRec
      /\ CallOK(c, wanted[c].op, wanted[c].by, o, "nothing", store, guards[b], gen[b], Gone(b))
      /\ "revoke" \in Words /\ b \in Broker /\ gen[b] \in Nat
  BY <1>0, Here, AreWords
<1>2. r \in CallRec /\ call' = [call EXCEPT ![c] = r] /\ r.gen = o.gen /\ r.pc = "revoke"
  <2>1. call' = [call EXCEPT ![c] = [o EXCEPT !.pc = "revoke"]]
    BY <1>1 DEF ForgetDeleted, Goto, CallRec
  <2> QED BY <1>1, <2>1 DEF CallRec
<1> HIDE DEF r
<1>3. wanted[c].op = "delete" /\ guards[b].writer = c /\ store.tombstone # Nobody
  BY <1>0, <1>1 DEF CallOK, PlaceOK, LockOK, SeenOK, Stage, Finding, Ended, Deleting
<1>4. guards[b].readers = {}
  BY <1>1, <1>3, CatalogAssumption DEF CatalogInv, BrokerOK
<1>5. /\ cache' = [cache EXCEPT ![b] = NoServed] /\ NoServed \in CacheRec /\ NoServed.entry = Nobody
      /\ gen' = [gen EXCEPT ![b] = gen[b] + 1]
  BY <1>0, ForgetLeaves
<1>6. /\ guards' \in [Broker -> Lock] /\ (\A e \in Broker \ {b} : guards'[e] = guards[e])
      /\ Spares(c, guards[b], guards'[b]) /\ (guards'[b].writer # Nobody => guards'[b].readers = {})
  BY <1>0, GuardSpares
<1>7. TopicTypes'
  <2>1. cache' \in [Broker -> CacheRec] /\ gen' \in [Broker -> Nat]
    BY <1>1, <1>5 DEF CatalogInv, TopicTypes
  <2>2. call' \in [Caller -> CallRec]
    BY <1>1, <1>2
  <2> QED BY <1>0, <1>6, <2>1, <2>2 DEF CatalogInv, TopicTypes
<1>8. /\ \A d \in Caller : /\ At(d)' = At(d) /\ told'[d] = told[d]
                           /\ d # c => call'[d] = call[d] /\ (IsGone(d)' <=> IsGone(d))
      /\ \A e \in Broker \ {b} : Gone(e)' <=> Gone(e)
  <2>1. \A d \in Caller : /\ At(d)' = At(d) /\ told'[d] = told[d]
                          /\ d # c => call'[d] = call[d] /\ (IsGone(d)' <=> IsGone(d))
    BY <1>0, <1>1, <1>2 DEF At, IsGone
  <2> QED BY <2>1 DEF Gone
<1>9. Grows(store, store)
  BY DEF Grows
<1>10. ASSUME NEW d \in Caller PROVE Own(d)'
  <2>1. CASE d = c
    <3>1. gen'[b] = gen[b] + 1 /\ o.gen \in Nat /\ o.gen <= gen[b] /\ call'[c] = r /\ At(d)' = b
      BY <1>1, <1>2, <1>5, <1>8, <2>1 DEF CatalogInv, TopicTypes, CallOK, CallRec
    <3>2. r.gen <= gen'[b]
      BY <1>1, <1>2, <3>1
    <3>3. CallOK(c, wanted[c].op, wanted[c].by, r, "nothing", store, guards'[b], gen'[b], TRUE)
      BY <1>2, <1>3, <3>2
         DEF CallOK, PlaceOK, LockOK, WriteOK, SeenOK, BlindOK, Stage, Finding, Ended, Deleting, Reads
    <3> QED
      BY <1>0, <1>1, <2>1, <3>1, <3>3 DEF Own, CallOK
  <2>2. CASE d # c
    <3>1. /\ At(d) \in Broker /\ call[d] \in CallRec /\ guards[At(d)] \in Lock /\ gen[At(d)] \in Nat
          /\ wanted[d].op \in {"create", "hydrate"} => wanted[d].by \in Creators
          /\ CallOK(d, wanted[d].op, wanted[d].by, call[d], told[d], store, guards[At(d)], gen[At(d)], Gone(At(d)))
      BY Here
    <3>2. guards'[At(d)] \in Lock /\ gen'[At(d)] \in Nat /\ call'[d] = call[d] /\ At(d)' = At(d)
      BY <1>7, <1>8, <2>2, <3>1 DEF TopicTypes
    <3>3. CASE At(d) # b
      <4>1. gen'[At(d)] = gen[At(d)] /\ guards'[At(d)] = guards[At(d)] /\ (Gone(At(d))' <=> Gone(At(d)))
        BY <1>5, <1>6, <1>8, <3>1, <3>3 DEF CatalogInv, TopicTypes
      <4> QED BY <1>0, <3>1, <3>2, <4>1 DEF Own, CallOK
    <3>4. CASE At(d) = b
      <4>1. gen'[b] = gen[b] + 1 /\ gen[b] <= gen'[b] /\ Spares(c, guards[b], guards'[b])
        BY <1>1, <1>5, <1>6 DEF CatalogInv, TopicTypes
      <4>2. CallOK(d, wanted[d].op, wanted[d].by, call[d], told[d], store, guards'[b], gen'[b], Gone(b))
        BY <1>1, <1>9, <2>2, <3>1, <3>2, <3>4, <4>1, OtherStands
      <4>3. call[d].gen # gen'[b]
        <5>1. call[d].gen \in Nat /\ call[d].gen <= gen[b]
          BY <3>1, <3>4 DEF CallOK, CallRec
        <5> QED BY <1>1, <4>1, <5>1
      <4>4. wanted[d].op \in Reads => call[d].pc \in {"start", "done"}
        BY <1>4, <3>1, <3>4 DEF CallOK, LockOK, Stage, Finding, Returns, Ended
      <4>5. BlindOK(wanted[d].op, call[d], gen'[b])
        BY <4>3, <4>4 DEF BlindOK, Reads, Past
      <4> QED BY <1>0, <3>2, <3>4, <4>2, <4>5 DEF Own, CallOK
    <3> QED BY <3>3, <3>4
  <2> QED BY <2>1, <2>2
<1>11. ASSUME NEW e \in Broker PROVE BrokerOK(e)'
  <2>1. (\E d \in Caller : At(d)' = e /\ told'[d] = "deleted") => grants'[e] = {}
    BY <1>0, <1>8 DEF CatalogInv, BrokerOK
  <2>2. CASE e = b
    <3>1. cache'[e].entry = Nobody
      BY <1>1, <1>5, <2>2 DEF CatalogInv, TopicTypes
    <3> QED BY <1>6, <2>1, <2>2, <3>1 DEF BrokerOK
  <2>3. CASE e # b
    <3>1. cache'[e] = cache[e] /\ guards'[e] = guards[e] /\ (Gone(e)' <=> Gone(e))
      BY <1>1, <1>5, <1>6, <1>8, <2>3 DEF CatalogInv, TopicTypes
    <3> QED BY <2>1, <3>1 DEF BrokerOK, CatalogInv
  <2> QED BY <2>2, <2>3
<1>12. OneCreator'
  <2>1. \A d \in Caller : (Claims(d)' => Claims(d)) /\ (Grant(d)' => Grant(d))
    BY <1>1, <1>2, <1>8 DEF Claims, Grant
  <2> QED BY <1>0, <2>1 DEF OneCreator, CatalogInv
<1> QED
  BY <1>0, <1>7, <1>10, <1>11, <1>12 DEF CatalogInv

(* A cached entry's second lapses.                                         *)
LEMMA ExpireKeeps ==
    ASSUME CatalogInv, NEW b \in Broker, Expire(b)
    PROVE  CatalogInv'
<1>0. UNCHANGED <<store, gen, guards, grants, wanted, call, late, told>>
  BY DEF Expire
<1>1. cache \in [Broker -> CacheRec] /\ cache' = [cache EXCEPT ![b] = [cache[b] EXCEPT !.fresh = FALSE]]
  BY DEF Expire, CatalogInv, TopicTypes
<1>2. cache' \in [Broker -> CacheRec] /\ \A e \in Broker : cache'[e].entry = cache[e].entry
  BY <1>1 DEF CacheRec
<1>3. TopicTypes'
  BY <1>0, <1>2 DEF CatalogInv, TopicTypes
<1>4. /\ \A c \in Caller : At(c)' = At(c) /\ (IsGone(c)' <=> IsGone(c))
      /\ \A e \in Broker : Gone(e)' <=> Gone(e)
  BY <1>0 DEF At, IsGone, Gone
<1>5. ASSUME NEW c \in Caller PROVE Own(c)'
  <2>1. At(c) \in Broker /\ Own(c)
    BY Here DEF CatalogInv
  <2> QED BY <1>0, <1>4, <2>1 DEF Own, CallOK
<1>6. \A e \in Broker : BrokerOK(e)'
  BY <1>0, <1>2, <1>4 DEF BrokerOK, CatalogInv
<1>7. OneCreator'
  BY <1>0 DEF OneCreator, Claims, Grant, CatalogInv
<1> QED
  BY <1>0, <1>3, <1>5, <1>6, <1>7 DEF CatalogInv

(* A write whose caller is gone lands.                                     *)
LEMMA LateKeeps ==
    ASSUME CatalogInv, NEW w \in late, LateLands(w)
    PROVE  CatalogInv' /\ Grows(store, store')
<1>0. UNCHANGED <<cache, gen, guards, grants, wanted, call, told>> /\ late' \subseteq late
  BY DEF LateLands
<1>1. store' \in StoreRec /\ StoreOK(store') /\ Grows(store, store') /\ store \in StoreRec
  <2>1. w.pc \in Writing /\ w.entry \in Names /\ WriteOK(w.pc, w.entry, store) /\ store \in StoreRec /\ StoreOK(store)
    BY DEF CatalogInv, TopicTypes, WriteRec
  <2>2. store' = Written(w.pc, w.entry)
    BY DEF LateLands
  <2> QED BY <2>1, <2>2, WrittenGrows
<1>2. \A v \in late' : WriteOK(v.pc, v.entry, store')
  BY <1>0, <1>1, WriteStays DEF CatalogInv
<1>3. TopicTypes'
  BY <1>0, <1>1 DEF CatalogInv, TopicTypes
<1>4. /\ \A c \in Caller : At(c)' = At(c) /\ (IsGone(c)' <=> IsGone(c))
      /\ \A e \in Broker : Gone(e)' <=> Gone(e)
  BY <1>0 DEF At, IsGone, Gone
<1>5. ASSUME NEW c \in Caller PROVE Own(c)'
  <2>1. /\ At(c) \in Broker /\ call[c] \in CallRec /\ guards[At(c)] \in Lock /\ gen[At(c)] \in Nat
        /\ wanted[c].op \in {"create", "hydrate"} => wanted[c].by \in Creators
        /\ CallOK(c, wanted[c].op, wanted[c].by, call[c], told[c], store, guards[At(c)], gen[At(c)], Gone(At(c)))
    BY Here
  <2>2. /\ PlaceOK(wanted[c].op, Stage(call[c])) /\ SeenOK(call[c].pc, call[c].entry, told[c], wanted[c].by, store)
        /\ WriteOK(call[c].pc, call[c].entry, store)
    BY <2>1 DEF CallOK
  <2>3. call[c].pc \in {"put id", "created?", "grant"} \/ told[c] = "created" => wanted[c].by \in Creators
    BY <2>1, <2>2 DEF PlaceOK, SeenOK, Stage, Finding, Ended, Deleting
  <2>4. WriteOK(call[c].pc, call[c].entry, store') /\ SeenOK(call[c].pc, call[c].entry, told[c], wanted[c].by, store')
    BY <1>1, <2>2, <2>3, WriteStays, SeenStays
  <2> QED BY <1>0, <1>4, <2>1, <2>4 DEF Own, CallOK
<1>6. \A e \in Broker : BrokerOK(e)'
  BY <1>0, <1>4 DEF BrokerOK, CatalogInv
<1>7. OneCreator'
  <2>1. store'.tombstone = Nobody => store.tombstone = Nobody
    BY <1>1 DEF Grows, StoreRec
  <2> QED BY <1>0, <2>1 DEF OneCreator, Claims, Grant, CatalogInv
<1> QED
  BY <1>0, <1>1, <1>2, <1>3, <1>5, <1>6, <1>7 DEF CatalogInv

(* The invariant holds at the start.                                       *)
LEMMA CatalogStarts == CatalogInit => CatalogInv
<1> SUFFICES ASSUME CatalogInit PROVE CatalogInv
  OBVIOUS
<1> DEFINE r == [pc |-> "start", ret |-> "", entry |-> Nobody, gen |-> 0]
<1> DEFINE k == [readers |-> {}, writer |-> Nobody]
<1> DEFINE st == [topic |-> Nobody, id |-> FALSE, owner |-> {}, tombstone |-> Nobody, retention |-> "unset"]
<1>1. r \in CallRec /\ k \in Lock /\ st \in StoreRec /\ NoServed \in CacheRec /\ "nothing" \in Words
  BY NameKinds, AreWords DEF CallRec, Lock, StoreRec, CacheRec, NoServed
<1>2. /\ store = st /\ cache = [b \in Broker |-> NoServed] /\ gen = [b \in Broker |-> 0]
      /\ guards = [b \in Broker |-> k] /\ grants = [b \in Broker |-> {}] /\ wanted \in Jobs
      /\ call = [c \in Caller |-> r] /\ late = {} /\ told = [c \in Caller |-> "nothing"]
  BY DEF CatalogInit
<1>3. r.pc = "start" /\ r.gen = 0 /\ k.writer = Nobody /\ st.topic = Nobody
  OBVIOUS
<1> HIDE DEF r, k, st
<1>4. TopicTypes
  BY <1>1, <1>2 DEF TopicTypes
<1>5. \A c \in Caller : call[c] = r /\ told[c] = "nothing" /\ ~IsGone(c) /\ ~Claims(c) /\ ~Grant(c)
  BY <1>2, <1>3 DEF IsGone, Claims, Grant
<1>6. \A b \in Broker : ~Gone(b) /\ gen[b] = 0 /\ guards[b] = k
  BY <1>2, <1>5 DEF Gone
<1>7. ASSUME NEW c \in Caller PROVE Own(c)
  <2>1. At(c) \in Broker
    BY <1>4, Typed
  <2>2. /\ call[c].pc = "start" /\ told[c] = "nothing" /\ ~Gone(At(c))
    BY <1>3, <1>5, <1>6, <2>1
  <2>3. call[c].gen <= gen[At(c)]
    BY <1>3, <1>5, <1>6, <2>1
  <2> HIDE DEF Gone, At
  <2>4. /\ PlaceOK(wanted[c].op, Stage(call[c])) /\ LockOK(wanted[c].op, Stage(call[c]), c, guards[At(c)])
        /\ WriteOK(call[c].pc, call[c].entry, store)
        /\ SeenOK(call[c].pc, call[c].entry, told[c], wanted[c].by, store) /\ call[c].pc \notin Finding
    BY <2>2 DEF PlaceOK, LockOK, WriteOK, SeenOK, Stage, Finding, Ended, Deleting
  <2> QED
    BY <2>2, <2>3, <2>4 DEF Own, CallOK
<1>8. StoreOK(store) /\ OneCreator /\ \A b \in Broker : BrokerOK(b)
  BY <1>2, <1>3, <1>5, <1>6 DEF StoreOK, OneCreator, BrokerOK
<1> QED
  BY <1>2, <1>4, <1>7, <1>8 DEF CatalogInv

(* Every step keeps it.                                                    *)
LEMMA CatalogKeeps == CatalogInv /\ [CatalogNext]_catalogVars => CatalogInv'
<1> SUFFICES ASSUME CatalogInv, [CatalogNext]_catalogVars PROVE CatalogInv'
  OBVIOUS
<1>1. ASSUME NEW c \in Caller, StartCreate(c) \/ StartDelete(c) \/ StartHydrate(c) PROVE CatalogInv'
  BY <1>1, StartKeeps
<1>2. ASSUME NEW c \in Caller, Served(c, "lookup") \/ Served(c, "alter") PROVE CatalogInv'
  BY <1>2, ServedKeeps
<1>3. ASSUME NEW c \in Caller, FindTombstone(c) \/ FindEntry(c) \/ FindId(c) PROVE CatalogInv'
  BY <1>3, FindKeeps
<1>4. ASSUME NEW c \in Caller, CreateAllowed(c) \/ RejectTombstoned(c) \/ Race(c) \/ RaceEntry(c) PROVE CatalogInv'
  BY <1>4, CreateLooksKeeps
<1>5. ASSUME NEW c \in Caller, PutOwner(c) \/ PutTopic(c) \/ PutId(c) \/ HealId(c) PROVE CatalogInv'
  BY <1>5, CreatePutsKeep
<1>6. ASSUME NEW c \in Caller, Created(c) \/ Raced(c) \/ LookedUp(c) \/ AlterServed(c) PROVE CatalogInv'
  BY <1>6, RememberKeeps
<1>7. ASSUME NEW c \in Caller, \/ CreateReserved(c) \/ Withdraw(c) \/ DeleteMissing(c) \/ AlterUnknown(c)
                               \/ Journal(c) \/ ListedNone(c)
      PROVE CatalogInv'
  BY <1>7, QuietTellKeeps
<1>8. ASSUME NEW c \in Caller, Granted(c) \/ Revoke(c) \/ Hydrated(c) PROVE CatalogInv'
  BY <1>8, GrantTellKeeps
<1>9. ASSUME NEW c \in Caller, DeleteLooks(c) \/ DeleteEntry(c) \/ DeleteFails(c) PROVE CatalogInv'
  BY <1>9, DeleteLooksKeeps
<1>10. ASSUME NEW c \in Caller, PutTombstone(c) \/ Purge(c) \/ PutRetention(c) PROVE CatalogInv'
  BY <1>10, OtherPutsKeep
<1>11. ASSUME NEW c \in Caller, AlterFound(c) \/ ListOwned(c) \/ ListedOne(c) PROVE CatalogInv'
  BY <1>11, OtherMovesKeep
<1>12. ASSUME NEW c \in Caller, EvictAbsent(c) \/ Reconcile(c) PROVE CatalogInv'
  BY <1>12, ReconcileKeeps
<1>13. ASSUME NEW c \in Caller, ForgetDeleted(c) PROVE CatalogInv'
  BY <1>13, ForgetKeeps
<1>14. ASSUME NEW c \in Caller, DroppedTopic(c) PROVE CatalogInv'
  BY <1>14, DroppedKeeps
<1>15. ASSUME NEW b \in Broker, Expire(b) PROVE CatalogInv'
  BY <1>15, ExpireKeeps
<1>16. ASSUME NEW w \in late, LateLands(w) PROVE CatalogInv'
  BY <1>16, LateKeeps
<1>17. CASE UNCHANGED catalogVars
  <2>1. /\ UNCHANGED <<store, cache, gen, guards, grants, wanted, call, late, told>>
    BY <1>17 DEF catalogVars
  <2> QED
    BY <2>1 DEF CatalogInv, TopicTypes, OneCreator, Claims, Grant, Own, At, Gone, IsGone, BrokerOK
<1> QED
  BY <1>1, <1>2, <1>3, <1>4, <1>5, <1>6, <1>7, <1>8, <1>9, <1>10, <1>11, <1>12, <1>13, <1>14, <1>15,
     <1>16, <1>17 DEF CatalogNext

-----------------------------------------------------------------------------
(* What a broker answered as deleted it has forgotten for good             *)
(* (DeletedForgotten; delete_topic and remember_if_generation of           *)
(* cluster/topics.rs), a topic has one creator, whose list names it        *)
(* (CreatorLists; insert_owned of catalog/stored.rs): for any brokers and  *)
(* callers, whatever they call.                                            *)
THEOREM ForgottenSafety == CatalogSpec => [](DeletedForgotten /\ CreatorLists)
<1>1. CatalogInv => DeletedForgotten
  <2> SUFFICES ASSUME CatalogInv, NEW c \in Caller, told[c] = "deleted"
               PROVE  cache[At(c)].entry = Nobody /\ grants[At(c)] = {}
    BY DEF DeletedForgotten
  <2>1. Gone(At(c))
    BY DEF Gone, IsGone
  <2> QED BY <2>1, StaysPut
<1>2. CatalogInv => CreatorLists
  <2> SUFFICES ASSUME CatalogInv PROVE CreatorLists
    OBVIOUS
  <2>1. Visible => store.topic \in store.owner
    BY DEF CatalogInv, StoreOK, Visible
  <2>2. \A c, d \in Caller : told[c] = "created" /\ told[d] = "created" => c = d
    BY DEF CatalogInv, OneCreator, Grant
  <2>3. ASSUME NEW c \in Caller, told[c] = "created", store.tombstone = Nobody
        PROVE  Visible /\ store.topic = wanted[c].by
    <3>1. SeenOK(call[c].pc, call[c].entry, told[c], wanted[c].by, store)
      BY Here DEF CallOK
    <3> QED BY <2>3, <3>1, CatalogAssumption DEF SeenOK, Visible
  <2> QED BY <2>1, <2>2, <2>3 DEF CreatorLists
<1> QED
  BY <1>1, <1>2, CatalogStarts, CatalogKeeps, PTL DEF CatalogSpec

-----------------------------------------------------------------------------
(* The store is written by the call whose turn it is, by a late write, or  *)
(* not at all.                                                             *)
LEMMA StoreWritten ==
    ASSUME CatalogNext
    PROVE  \/ store' = store
           \/ \E c \in Caller : call[c].pc \in Writing /\ store' = Written(call[c].pc, call[c].entry)
           \/ \E w \in late : LateLands(w)
<1>1. ASSUME NEW c \in Caller, \/ PutOwner(c) \/ PutTopic(c) \/ PutId(c) \/ HealId(c) \/ PutTombstone(c)
                               \/ Purge(c) \/ PutRetention(c)
      PROVE  call[c].pc \in Writing /\ store' = Written(call[c].pc, call[c].entry)
  BY <1>1 DEF PutOwner, PutTopic, PutId, HealId, PutTombstone, Purge, PutRetention, Puts, Writing, CatalogEntry
<1>2. ASSUME NEW c \in Caller, Withdraw(c)
      PROVE  call[c].pc \in Writing /\ store' = Written(call[c].pc, call[c].entry)
  BY <1>2 DEF Withdraw, Writing, CatalogEntry
<1>3. ASSUME NEW c \in Caller,
             \/ StartCreate(c) \/ StartDelete(c) \/ StartHydrate(c) \/ Served(c, "lookup") \/ Served(c, "alter")
             \/ FindTombstone(c) \/ FindEntry(c) \/ FindId(c) \/ CreateReserved(c) \/ CreateAllowed(c)
             \/ RejectTombstoned(c) \/ Created(c) \/ Granted(c) \/ Race(c) \/ RaceEntry(c) \/ Raced(c)
      PROVE  store' = store
  BY <1>3 DEF StartCreate, StartDelete, StartHydrate, Served, FindTombstone, FindEntry, FindId, CreateReserved,
              CreateAllowed, RejectTombstoned, Created, Granted, Race, RaceEntry, Raced
<1>4. ASSUME NEW c \in Caller,
             \/ DeleteLooks(c) \/ DeleteMissing(c) \/ DeleteEntry(c) \/ ForgetDeleted(c) \/ Revoke(c)
             \/ DeleteFails(c) \/ EvictAbsent(c) \/ Reconcile(c) \/ LookedUp(c) \/ AlterServed(c)
             \/ AlterUnknown(c) \/ AlterFound(c) \/ Journal(c) \/ ListOwned(c) \/ ListedNone(c)
             \/ ListedOne(c) \/ Hydrated(c) \/ DroppedTopic(c)
      PROVE  store' = store
  BY <1>4 DEF DeleteLooks, DeleteMissing, DeleteEntry, ForgetDeleted, Revoke, DeleteFails, EvictAbsent, Reconcile,
              LookedUp, AlterServed, AlterUnknown, AlterFound, Journal, ListOwned, ListedNone, ListedOne,
              Hydrated, DroppedTopic
<1>5. ASSUME NEW b \in Broker, Expire(b) PROVE store' = store
  BY <1>5 DEF Expire
<1> QED
  BY <1>1, <1>2, <1>3, <1>4, <1>5 DEF CatalogNext

(* So it only grows.                                                       *)
LEMMA StepGrows ==
    ASSUME CatalogInv, [CatalogNext]_catalogVars
    PROVE  Grows(store, store')
<1>1. CASE store' = store
  BY <1>1 DEF Grows
<1>2. CASE \E c \in Caller : call[c].pc \in Writing /\ store' = Written(call[c].pc, call[c].entry)
  <2>1. PICK c \in Caller : call[c].pc \in Writing /\ store' = Written(call[c].pc, call[c].entry)
    BY <1>2
  <2>2. /\ store \in StoreRec /\ StoreOK(store) /\ call[c].entry \in Names
        /\ WriteOK(call[c].pc, call[c].entry, store)
    BY Here DEF CatalogInv, TopicTypes, CallOK, CallRec
  <2> QED BY <2>1, <2>2, WrittenGrows
<1>3. CASE \E w \in late : LateLands(w)
  BY <1>3, LateKeeps
<1>4. CASE UNCHANGED catalogVars
  BY <1>1, <1>4 DEF catalogVars
<1> QED
  BY <1>1, <1>2, <1>3, <1>4, StoreWritten

(* The objects of a name, written one by one by calls that race, fail      *)
(* half-way and land late, implement TopicCatalog: a name is created once  *)
(* and, once deleted, reserved for ever (catalog/stored.rs).               *)
THEOREM CatalogRefines == CatalogSpec => CatalogImplements
<1>1. CatalogInit => Topic!TopicInit
  <2> SUFFICES ASSUME CatalogInit PROVE TopicNow = "absent"
    BY DEF Topic!TopicInit
  <2>1. store.tombstone = Nobody /\ store.topic = Nobody
    BY DEF CatalogInit
  <2> QED BY <2>1 DEF TopicNow, Visible
<1>2. CatalogInv /\ CatalogInv' /\ [CatalogNext]_catalogVars => [Topic!TopicNext]_TopicNow
  <2> SUFFICES ASSUME CatalogInv, CatalogInv', [CatalogNext]_catalogVars
               PROVE  [Topic!TopicNext]_TopicNow
    OBVIOUS
  <2>1. Grows(store, store')
    BY StepGrows
  <2>2. store \in StoreRec /\ store' \in StoreRec
    BY DEF CatalogInv, TopicTypes
  <2>3. /\ TopicNow = IF store.tombstone # Nobody THEN "deleted"
                      ELSE IF store.topic # Nobody /\ store.id THEN store.topic ELSE "absent"
        /\ TopicNow' = IF store'.tombstone # Nobody THEN "deleted"
                       ELSE IF store'.topic # Nobody /\ store'.id THEN store'.topic ELSE "absent"
    BY DEF TopicNow, Visible
  <2>4. \/ TopicNow' = TopicNow
        \/ TopicNow = "absent" /\ TopicNow' \in Creators
        \/ TopicNow # "deleted" /\ TopicNow' = "deleted"
    <3>1. CASE store'.tombstone = Nobody
      BY <2>1, <2>2, <2>3, <3>1 DEF Grows, StoreRec
    <3>2. CASE store'.tombstone # Nobody
      BY <2>3, <3>2
    <3> QED BY <3>1, <3>2
  <2> HIDE DEF TopicNow
  <2> QED
    BY <2>4 DEF Topic!TopicNext, Topic!CreateTopic, Topic!DeleteTopic
<1> QED
  BY <1>1, <1>2, CatalogStarts, CatalogKeeps, PTL DEF CatalogSpec, CatalogImplements, Topic!TopicSpec

-----------------------------------------------------------------------------
(* The retention and the log: between its write and its record an alter    *)
(* holds the one lock there is, and what it wrote is what it will record.  *)
Altering(c) == Stage(call[c]) = "altered"

JournalInv ==
    /\ store.tombstone = Nobody /\ journal # "?" =>
           /\ \A c \in Caller : Altering(c) => store.retention = wanted[c].by
           /\ (\A c \in Caller : ~Altering(c)) => store.retention = journal
    /\ \A w \in late : w.pc = "put retention" => journal = "?"

(* An alter at work has its broker's lock.                                 *)
LEMMA AlterHolds ==
    ASSUME CatalogInv, NEW c \in Caller, Stage(call[c]) \in {"put retention", "altered"}
    PROVE  wanted[c].op = "alter" /\ guards[At(c)].writer = c
<1>1. PlaceOK(wanted[c].op, Stage(call[c])) /\ LockOK(wanted[c].op, Stage(call[c]), c, guards[At(c)])
  BY Here DEF CallOK
<1> QED BY <1>1 DEF PlaceOK, LockOK, Ended, Deleting

(* So there is one where alters are made at one broker.                    *)
LEMMA OneAlters ==
    ASSUME CatalogInv, AltersAtOneBroker, NEW c \in Caller, NEW d \in Caller,
           Stage(call[c]) \in {"put retention", "altered"}, Stage(call[d]) \in {"put retention", "altered"}
    PROVE  c = d
<1>1. /\ wanted[c].op = "alter" /\ guards[At(c)].writer = c
      /\ wanted[d].op = "alter" /\ guards[At(d)].writer = d
  BY AlterHolds DEF Altering
<1>2. At(c) = At(d)
  BY <1>1 DEF CatalogInv, TopicTypes, AltersAtOneBroker, At
<1> QED BY <1>1, <1>2

(* A step that neither alters nor records.                                 *)
LEMMA JournalStays ==
    ASSUME JournalInv, wanted' = wanted, journal' = journal,
           store'.tombstone = Nobody => store.tombstone = Nobody /\ store'.retention = store.retention,
           \A c \in Caller : Altering(c)' <=> Altering(c),
           \A w \in late' : w.pc = "put retention" => w \in late
    PROVE  JournalInv'
BY DEF JournalInv

(* Only an alter alters.                                                   *)
LEMMA AlterAlters ==
    ASSUME CatalogInv, NEW c \in Caller, Altering(c)
    PROVE  wanted[c].op = "alter"
BY AlterHolds DEF Altering

(* What a write does to the retention.                                     *)
LEMMA WrittenRetention ==
    ASSUME store \in StoreRec, NEW pc \in Writing \ {"put retention"}, NEW e \in Names, WriteOK(pc, e, store)
    PROVE  /\ Written(pc, e).tombstone = Nobody =>
                  store.tombstone = Nobody /\ Written(pc, e).retention = store.retention
<1> USE DEF StoreRec, WriteOK, PutAbsent
<1>1. CASE pc = "put owner"
  <2>1. Written(pc, e) = [store EXCEPT !.owner = @ \cup {e}]
    BY <1>1 DEF Written
  <2> QED BY <2>1
<1>2. CASE pc = "put topic"
  <2>1. Written(pc, e) = [store EXCEPT !.topic = IF @ = Nobody THEN e ELSE @]
    BY <1>2 DEF Written
  <2> QED BY <2>1
<1>3. CASE pc \in {"put id", "heal id"}
  <2>1. Written(pc, e) = [store EXCEPT !.id = TRUE]
    BY <1>3 DEF Written
  <2> QED BY <2>1
<1>4. CASE pc = "put tombstone"
  <2>1. Written(pc, e) = [store EXCEPT !.tombstone = IF @ = Nobody THEN e ELSE @]
    BY <1>4 DEF Written
  <2> QED BY <2>1
<1>5. CASE pc \in {"purge", "withdraw"}
  <2>1. Written(pc, e) = [store EXCEPT !.topic = Nobody, !.id = FALSE, !.retention = "unset",
                                       !.owner = @ \ {e}]
    BY <1>5 DEF Written
  <2>2. Written(pc, e).tombstone # Nobody
    BY <1>5, <2>1
  <2> QED BY <2>2
<1> QED
  BY <1>1, <1>2, <1>3, <1>4, <1>5 DEF Writing

(* A step of c alone, which records nothing.                               *)
Alone(c) ==
    /\ wanted' = wanted /\ journal' = journal
    /\ \A d \in Caller \ {c} : call'[d] = call[d]

(* Who is where no alter can be does not alter.                            *)
LEMMA Elsewhere ==
    ASSUME CatalogInv, NEW c \in Caller,
           call[c].pc \notin Finding \cup Ended \cup {"served", "alter", "put retention", "altered"}
    PROVE  wanted[c].op # "alter"
<1>1. PlaceOK(wanted[c].op, Stage(call[c]))
  BY Here DEF CallOK
<1>2. Stage(call[c]) = call[c].pc
  BY DEF Stage
<1> QED BY <1>1, <1>2 DEF PlaceOK

(* The write a call leaves behind is its own.                              *)
LEMMA FlightIs == \A c \in Caller : \A w \in InFlight(c) : w.pc = call[c].pc
<1> SUFFICES ASSUME NEW c \in Caller, NEW w \in InFlight(c) PROVE w.pc = call[c].pc
  OBVIOUS
<1> DEFINE r == [pc |-> call[c].pc, entry |-> CatalogEntry(c)]
<1>1. r.pc = call[c].pc
  OBVIOUS
<1>2. w = r
  BY DEF InFlight
<1> HIDE DEF r
<1> QED BY <1>1, <1>2

(* The steps of a call that is no alter.                                   *)
LEMMA OthersStay ==
    ASSUME CatalogInv, CatalogInv', JournalInv, NEW c \in Caller, Alone(c), wanted[c].op # "alter",
           \/ store' = store
           \/ call[c].pc \in Writing \ {"put retention"} /\ store' = Written(call[c].pc, call[c].entry),
           late' \subseteq late \cup InFlight(c), call[c].pc # "put retention"
    PROVE  JournalInv'
<1>1. store'.tombstone = Nobody => store.tombstone = Nobody /\ store'.retention = store.retention
  <2>1. CASE store' = store
    BY <2>1
  <2>2. CASE call[c].pc \in Writing \ {"put retention"} /\ store' = Written(call[c].pc, call[c].entry)
    <3>1. store \in StoreRec /\ call[c].entry \in Names /\ WriteOK(call[c].pc, call[c].entry, store)
      BY Here DEF CatalogInv, TopicTypes, CallOK, CallRec
    <3> QED BY <2>2, <3>1, WrittenRetention
  <2> QED BY <2>1, <2>2
<1>2. ASSUME NEW d \in Caller PROVE Altering(d)' <=> Altering(d)
  <2>1. CASE d = c
    <3>1. ~Altering(c)
      BY AlterAlters
    <3>2. ~(Stage(call'[c]) = "altered")
      <4>1. PlaceOK(wanted'[c].op, Stage(call'[c]))
        BY DEF CatalogInv, Own, CallOK
      <4> QED BY <4>1 DEF PlaceOK, Ended, Deleting, Alone
    <3> QED BY <2>1, <3>1, <3>2 DEF Altering
  <2>2. CASE d # c
    BY <2>2 DEF Alone, Altering
  <2> QED BY <2>1, <2>2
<1>3. \A w \in late' : w.pc = "put retention" => w \in late
  BY FlightIs
<1> QED
  BY <1>1, <1>2, <1>3, JournalStays DEF Alone

LEMMA QuietStay ==
    ASSUME CatalogInv, CatalogInv', JournalInv, NEW c \in Caller,
           \/ StartCreate(c) \/ StartDelete(c) \/ StartHydrate(c) \/ Served(c, "lookup")
           \/ CreateReserved(c) \/ CreateAllowed(c) \/ RejectTombstoned(c) \/ Created(c) \/ Granted(c)
           \/ Race(c) \/ RaceEntry(c) \/ Raced(c)
           \/ DeleteLooks(c) \/ DeleteMissing(c) \/ DeleteEntry(c) \/ ForgetDeleted(c) \/ Revoke(c)
           \/ DeleteFails(c) \/ EvictAbsent(c) \/ Reconcile(c) \/ LookedUp(c)
           \/ ListOwned(c) \/ ListedNone(c) \/ ListedOne(c) \/ Hydrated(c)
    PROVE  JournalInv'
<1> USE DEF Goto, Finds, Tells
<1>0. call \in [Caller -> CallRec]
  BY DEF CatalogInv, TopicTypes
<1>1. wanted[c].op # "alter" /\ call[c].pc # "put retention"
  <2>1. CASE StartCreate(c) \/ StartDelete(c) \/ StartHydrate(c) \/ Served(c, "lookup") \/ LookedUp(c)
    BY <2>1 DEF StartCreate, StartDelete, StartHydrate, Served, LookedUp, Start
  <2>2. CASE \/ CreateReserved(c) \/ CreateAllowed(c) \/ RejectTombstoned(c) \/ Created(c) \/ Granted(c)
             \/ Race(c) \/ RaceEntry(c) \/ Raced(c)
    BY <2>2, Elsewhere DEF CreateReserved, CreateAllowed, RejectTombstoned, Created, Granted, Race, RaceEntry,
                           Raced, Finding, Ended
  <2>3. CASE \/ DeleteLooks(c) \/ DeleteMissing(c) \/ DeleteEntry(c) \/ ForgetDeleted(c) \/ Revoke(c)
             \/ DeleteFails(c) \/ EvictAbsent(c) \/ Reconcile(c)
    BY <2>3, Elsewhere DEF DeleteLooks, DeleteMissing, DeleteEntry, ForgetDeleted, Revoke, DeleteFails,
                           EvictAbsent, Reconcile, Deleting, Finding, Ended
  <2>4. CASE ListOwned(c) \/ ListedNone(c) \/ ListedOne(c) \/ Hydrated(c)
    BY <2>4, Elsewhere DEF ListOwned, ListedNone, ListedOne, Hydrated, Finding, Ended
  <2> QED BY <2>1, <2>2, <2>3, <2>4
<1>2. wanted' = wanted /\ journal' = journal /\ store' = store /\ late' \subseteq late \cup InFlight(c)
  <2>1. CASE \/ StartCreate(c) \/ StartDelete(c) \/ StartHydrate(c) \/ Served(c, "lookup") \/ LookedUp(c)
             \/ CreateReserved(c) \/ CreateAllowed(c) \/ RejectTombstoned(c) \/ Created(c) \/ Granted(c)
             \/ Race(c) \/ RaceEntry(c) \/ Raced(c)
    BY <2>1 DEF StartCreate, StartDelete, StartHydrate, Served, LookedUp, CreateReserved, CreateAllowed,
                RejectTombstoned, Created, Granted, Race, RaceEntry, Raced
  <2>2. CASE \/ DeleteLooks(c) \/ DeleteMissing(c) \/ DeleteEntry(c) \/ ForgetDeleted(c) \/ Revoke(c)
             \/ DeleteFails(c) \/ EvictAbsent(c) \/ Reconcile(c)
             \/ ListOwned(c) \/ ListedNone(c) \/ ListedOne(c) \/ Hydrated(c)
    BY <2>2 DEF DeleteLooks, DeleteMissing, DeleteEntry, ForgetDeleted, Revoke, DeleteFails, EvictAbsent,
                Reconcile, ListOwned, ListedNone, ListedOne, Hydrated
  <2> QED BY <2>1, <2>2
<1>3. \A d \in Caller \ {c} : call'[d] = call[d]
  <2>1. CASE \/ StartCreate(c) \/ StartDelete(c) \/ StartHydrate(c) \/ LookedUp(c) \/ Served(c, "lookup")
    BY <1>0, <2>1 DEF StartCreate, StartDelete, StartHydrate, LookedUp, Served
  <2>2. CASE \/ CreateReserved(c) \/ CreateAllowed(c) \/ RejectTombstoned(c) \/ Created(c) \/ Granted(c)
             \/ Race(c) \/ RaceEntry(c) \/ Raced(c)
    BY <1>0, <2>2 DEF CreateReserved, CreateAllowed, RejectTombstoned, Created, Granted, Race, RaceEntry, Raced
  <2>3. CASE \/ DeleteLooks(c) \/ DeleteMissing(c) \/ DeleteEntry(c) \/ ForgetDeleted(c) \/ Revoke(c)
             \/ DeleteFails(c) \/ EvictAbsent(c) \/ Reconcile(c)
    BY <1>0, <2>3 DEF DeleteLooks, DeleteMissing, DeleteEntry, ForgetDeleted, Revoke, DeleteFails, EvictAbsent,
                      Reconcile
  <2>4. CASE ListOwned(c) \/ ListedNone(c) \/ ListedOne(c) \/ Hydrated(c)
    BY <1>0, <2>4 DEF ListOwned, ListedNone, ListedOne, Hydrated
  <2> QED BY <2>1, <2>2, <2>3, <2>4
<1> QED
  BY <1>1, <1>2, <1>3, OthersStay DEF Alone

LEMMA PutsStay ==
    ASSUME CatalogInv, CatalogInv', JournalInv, NEW c \in Caller,
           \/ PutOwner(c) \/ PutTopic(c) \/ PutId(c) \/ HealId(c) \/ Withdraw(c) \/ PutTombstone(c) \/ Purge(c)
    PROVE  JournalInv'
<1>1. call[c].pc \in Writing \ {"put retention"} /\ wanted[c].op # "alter"
  BY Elsewhere DEF PutOwner, PutTopic, PutId, HealId, Withdraw, PutTombstone, Purge, Writing, Finding, Ended
<1>2. /\ wanted' = wanted /\ journal' = journal /\ late' \subseteq late \cup InFlight(c)
      /\ store' = Written(call[c].pc, call[c].entry)
  BY DEF PutOwner, PutTopic, PutId, HealId, Withdraw, PutTombstone, Purge, Puts, CatalogEntry
<1>3. \A d \in Caller \ {c} : call'[d] = call[d]
  <2>1. call \in [Caller -> CallRec]
    BY DEF CatalogInv, TopicTypes
  <2> QED
    BY <2>1 DEF PutOwner, PutTopic, PutId, HealId, Withdraw, PutTombstone, Purge, Goto, Finds, Tells
<1> QED
  BY <1>1, <1>2, <1>3, OthersStay DEF Alone

(* An alter before its write, and a find on its way.                       *)
LEMMA CalmStay ==
    ASSUME CatalogInv, JournalInv, NEW c \in Caller,
           \/ Served(c, "alter") \/ AlterServed(c) \/ AlterFound(c)
           \/ FindTombstone(c) \/ FindEntry(c) \/ FindId(c)
    PROVE  JournalInv'
<1> USE DEF Goto, Finds, Tells, Found
<1>0. call \in [Caller -> CallRec]
  BY DEF CatalogInv, TopicTypes
<1>1. wanted' = wanted /\ journal' = journal /\ store' = store /\ late' = late
  BY DEF Served, AlterServed, AlterFound, FindTombstone, FindEntry, FindId
<1>2. \A d \in Caller \ {c} : call'[d] = call[d]
  <2>1. CASE Served(c, "alter") \/ AlterServed(c) \/ AlterFound(c)
    BY <1>0, <2>1 DEF Served, AlterServed, AlterFound
  <2>2. CASE FindTombstone(c) \/ FindEntry(c) \/ FindId(c)
    BY <1>0, <2>2 DEF FindTombstone, FindEntry, FindId
  <2> QED BY <2>1, <2>2
<1>3. Stage(call'[c]) = "altered" <=> Stage(call[c]) = "altered"
  <2>1. CASE Served(c, "alter")
    <3>1. call[c].pc = "start" /\ (call'[c].pc = "served" \/ (call'[c].pc = "find" /\ call'[c].ret = "served"))
      BY <1>0, <2>1 DEF Served, Start, CallRec
    <3> QED BY <3>1 DEF Stage, Finding
  <2>2. CASE AlterServed(c)
    <3>1. call[c].pc = "served" /\ (call'[c].pc = "done" \/ (call'[c].pc = "find" /\ call'[c].ret = "alter"))
      BY <1>0, <2>2 DEF AlterServed, CallRec
    <3> QED BY <3>1 DEF Stage, Finding
  <2>3. CASE AlterFound(c)
    <3>1. call[c].pc = "alter" /\ call'[c].pc = "put retention"
      BY <1>0, <2>3 DEF AlterFound, CallRec
    <3> QED BY <3>1 DEF Stage, Finding
  <2>4. CASE FindTombstone(c) \/ FindEntry(c) \/ FindId(c)
    <3>1. call[c].pc \in Finding
      BY <2>4 DEF FindTombstone, FindEntry, FindId, Finding
    <3>2. call[c].ret \in Returns
      BY <3>1, Here DEF CallOK
    <3>3. call'[c].ret = call[c].ret /\ (call'[c].pc \in Finding \/ call'[c].pc = call[c].ret)
      <4>1. CASE FindTombstone(c)
        <5>1. \/ call' = [call EXCEPT ![c].pc = call[c].ret, ![c].entry = Nobody]
              \/ call' = [call EXCEPT ![c].pc = "find entry"]
              \/ call' = [call EXCEPT ![c].pc = call[c].ret, ![c].entry = CatalogEntry(c)]
          BY <4>1 DEF FindTombstone
        <5>2. "find entry" \in Finding
          BY DEF Finding
        <5> QED BY <1>0, <5>1, <5>2 DEF CallRec
      <4>2. CASE FindEntry(c)
        BY <1>0, <4>2 DEF FindEntry, CallRec, Finding
      <4>3. CASE FindId(c)
        BY <1>0, <4>3 DEF FindId, CallRec, Finding
      <4> QED BY <2>4, <4>1, <4>2, <4>3
    <3> QED BY <3>1, <3>2, <3>3 DEF Stage, Finding, Returns
  <2> QED BY <2>1, <2>2, <2>3, <2>4
<1>4. ASSUME NEW d \in Caller PROVE Altering(d)' <=> Altering(d)
  BY <1>2, <1>3 DEF Altering
<1> QED
  BY <1>1, <1>4, JournalStays

(* Once an alter has failed nothing more is said.                          *)
LEMMA UnknownStays ==
    ASSUME journal' = "?"
    PROVE  JournalInv'
BY DEF JournalInv

(* The write and the record of an alter.                                   *)
LEMMA AlterStays ==
    ASSUME CatalogInv, CatalogInv', AltersAtOneBroker, JournalInv, NEW c \in Caller, PutRetention(c) \/ Journal(c)
    PROVE  JournalInv'
<1>0. call \in [Caller -> CallRec] /\ store \in StoreRec
  BY DEF CatalogInv, TopicTypes
<1>1. CASE PutRetention(c)
  <2>1. call[c].pc = "put retention" /\ call'[c].pc = "find" /\ call'[c].ret = "altered"
    BY <1>0, <1>1 DEF PutRetention, Finds, CallRec
  <2>2. /\ wanted' = wanted /\ journal' = journal /\ late' = late
        /\ \A d \in Caller \ {c} : call'[d] = call[d]
    BY <1>0, <1>1 DEF PutRetention, Puts, Finds
  <2>3. call[c].entry = wanted[c].by
    BY <2>1, Here DEF CallOK, SeenOK
  <2>4. store' = [store EXCEPT !.retention = wanted[c].by]
    BY <1>1, <2>1, <2>3 DEF PutRetention, Puts, Written, CatalogEntry
  <2>5. store'.retention = wanted[c].by
    BY <1>0, <2>4 DEF StoreRec
  <2>6. Altering(c)'
    BY <2>1 DEF Altering, Stage, Finding
  <2>7. ASSUME NEW d \in Caller, Altering(d)' PROVE d = c
    <3>1. CASE d = c
      BY <3>1
    <3>2. CASE d # c
      <4>1. Altering(d)
        BY <2>2, <2>7, <3>2 DEF Altering
      <4> QED BY <2>1, <4>1, OneAlters DEF Altering, Stage, Finding
    <3> QED BY <3>1, <3>2
  <2> QED
    BY <2>2, <2>5, <2>6, <2>7 DEF JournalInv
<1>2. CASE Journal(c)
  <2>1. call[c].pc = "altered" /\ call'[c].pc = "done" /\ journal' = IF journal = "?" THEN "?" ELSE wanted[c].by
    BY <1>0, <1>2 DEF Journal, Tells, Goto, CallRec
  <2>2. /\ wanted' = wanted /\ store' = store /\ late' = late
        /\ \A d \in Caller \ {c} : call'[d] = call[d]
    BY <1>0, <1>2 DEF Journal, Tells, Goto
  <2>3. Altering(c) /\ ~(Stage(call'[c]) = "altered")
    BY <2>1 DEF Altering, Stage, Finding
  <2>4. ASSUME NEW d \in Caller PROVE ~(Stage(call'[d]) = "altered")
    <3>1. CASE d = c
      BY <2>3, <3>1
    <3>2. CASE d # c
      <4>1. SUFFICES ASSUME Stage(call'[d]) = "altered" PROVE FALSE
        OBVIOUS
      <4>2. Stage(call[d]) = "altered"
        BY <2>2, <3>2, <4>1
      <4> QED BY <2>3, <3>2, <4>2, OneAlters DEF Altering
    <3> QED BY <3>1, <3>2
  <2>5. CASE journal = "?"
    BY <2>1, <2>5, UnknownStays
  <2>6. CASE journal # "?"
    <3>1. store.tombstone = Nobody => store.retention = wanted[c].by
      BY <2>3, <2>6 DEF JournalInv
    <3>2. journal' = wanted[c].by
      BY <2>1, <2>6
    <3>3. \A w \in late' : w.pc # "put retention"
      BY <2>2, <2>6 DEF JournalInv
    <3> QED
      BY <2>2, <2>4, <3>1, <3>2, <3>3 DEF JournalInv, Altering
  <2> QED BY <2>5, <2>6
<1> QED BY <1>1, <1>2

(* An alter that is told nothing of the topic, or is dropped.              *)
LEMMA FailedStays ==
    ASSUME CatalogInv, CatalogInv', JournalInv, NEW c \in Caller, AlterUnknown(c) \/ DroppedTopic(c)
    PROVE  JournalInv'
<1>0. call \in [Caller -> CallRec]
  BY DEF CatalogInv, TopicTypes
<1>1. CASE AlterUnknown(c)
  <2>1. CASE call[c].pc = "altered"
    BY <1>1, <2>1, UnknownStays DEF AlterUnknown
  <2>2. CASE call[c].pc # "altered"
    <3>1. call[c].pc = "alter" /\ call'[c].pc = "done"
      BY <1>0, <1>1, <2>2 DEF AlterUnknown, Tells, Goto, CallRec
    <3>2. /\ wanted' = wanted /\ journal' = journal /\ store' = store /\ late' = late
          /\ \A d \in Caller \ {c} : call'[d] = call[d]
      BY <1>0, <1>1, <2>2 DEF AlterUnknown, Tells, Goto
    <3>3. ~(Stage(call'[c]) = "altered") /\ ~(Stage(call[c]) = "altered")
      BY <3>1 DEF Stage, Finding
    <3>4. ASSUME NEW d \in Caller PROVE Altering(d)' <=> Altering(d)
      BY <3>2, <3>3 DEF Altering
    <3> QED BY <3>2, <3>4, JournalStays
  <2> QED BY <2>1, <2>2
<1>2. CASE DroppedTopic(c)
  <2>1. CASE call[c].pc = "put retention" \/ call[c].ret = "altered"
    BY <1>2, <2>1, UnknownStays DEF DroppedTopic
  <2>2. CASE ~(call[c].pc = "put retention" \/ call[c].ret = "altered")
    <3>1. wanted' = wanted /\ journal' = journal /\ store' = store /\ late' = late \cup InFlight(c)
      BY <1>2, <2>2 DEF DroppedTopic
    <3>2. \A d \in Caller \ {c} : call'[d] = call[d]
      BY <1>0, <1>2 DEF DroppedTopic, Tells, Goto, Finds
    <3>3. call'[c].pc = "done" \/ (call'[c].pc = "find" /\ call'[c].ret = "reconcile")
      <4>1. \/ call' = [call EXCEPT ![c].pc = "done"]
            \/ call' = [call EXCEPT ![c].pc = "find", ![c].ret = "reconcile"]
        BY <1>2 DEF DroppedTopic, Tells, Goto, Finds
      <4> QED BY <1>0, <4>1 DEF CallRec
    <3>4. ~(Stage(call'[c]) = "altered") /\ ~(Stage(call[c]) = "altered")
      <4>1. ~(Stage(call'[c]) = "altered")
        BY <3>3 DEF Stage, Finding
      <4>2. call[c].pc # "altered"
        BY <1>2 DEF DroppedTopic, Waiting, Writing, Deleting
      <4> QED BY <2>2, <4>1, <4>2 DEF Stage
    <3>5. ASSUME NEW d \in Caller PROVE Altering(d)' <=> Altering(d)
      BY <3>2, <3>4 DEF Altering
    <3>6. \A w \in late' : w.pc = "put retention" => w \in late
      BY <2>2, <3>1, FlightIs
    <3> QED BY <3>1, <3>5, <3>6, JournalStays
  <2> QED BY <2>1, <2>2
<1> QED BY <1>1, <1>2

(* Time, and what lands late.                                              *)
LEMMA RestStays ==
    ASSUME CatalogInv, JournalInv,
           (\E b \in Broker : Expire(b)) \/ (\E w \in late : LateLands(w)) \/ UNCHANGED catalogVars
    PROVE  JournalInv'
<1>1. CASE (\E b \in Broker : Expire(b)) \/ UNCHANGED catalogVars
  <2>1. UNCHANGED <<wanted, journal, store, call, late>>
    BY <1>1 DEF Expire, catalogVars
  <2> QED BY <2>1, JournalStays DEF Altering
<1>2. CASE \E w \in late : LateLands(w)
  <2>1. PICK w \in late : LateLands(w)
    BY <1>2
  <2>2. UNCHANGED <<wanted, call, journal>> /\ late' \subseteq late /\ store' = Written(w.pc, w.entry)
    BY <2>1 DEF LateLands
  <2>3. CASE w.pc = "put retention"
    <3>1. journal' = "?"
      BY <2>2, <2>3 DEF JournalInv
    <3> QED BY <3>1, UnknownStays
  <2>4. CASE w.pc # "put retention"
    <3>1. w.pc \in Writing \ {"put retention"} /\ w.entry \in Names /\ store \in StoreRec
      BY <2>4 DEF CatalogInv, TopicTypes, WriteRec
    <3>2. WriteOK(w.pc, w.entry, store)
      BY DEF CatalogInv
    <3>3. store'.tombstone = Nobody => store.tombstone = Nobody /\ store'.retention = store.retention
      BY <2>2, <3>1, <3>2, WrittenRetention
    <3> QED BY <2>2, <3>3, JournalStays DEF Altering
  <2> QED BY <2>3, <2>4
<1> QED BY <1>1, <1>2

LEMMA JournalKeeps ==
    ASSUME CatalogInv, CatalogInv', AltersAtOneBroker, JournalInv, [CatalogNext]_catalogVars
    PROVE  JournalInv'
<1>1. ASSUME NEW c \in Caller,
             \/ StartCreate(c) \/ StartDelete(c) \/ StartHydrate(c) \/ Served(c, "lookup")
             \/ CreateReserved(c) \/ CreateAllowed(c) \/ RejectTombstoned(c) \/ Created(c) \/ Granted(c)
             \/ Race(c) \/ RaceEntry(c) \/ Raced(c)
             \/ DeleteLooks(c) \/ DeleteMissing(c) \/ DeleteEntry(c) \/ ForgetDeleted(c) \/ Revoke(c)
             \/ DeleteFails(c) \/ EvictAbsent(c) \/ Reconcile(c) \/ LookedUp(c)
             \/ ListOwned(c) \/ ListedNone(c) \/ ListedOne(c) \/ Hydrated(c)
      PROVE  JournalInv'
  BY <1>1, QuietStay
<1>2. ASSUME NEW c \in Caller,
             \/ PutOwner(c) \/ PutTopic(c) \/ PutId(c) \/ HealId(c) \/ Withdraw(c) \/ PutTombstone(c) \/ Purge(c)
      PROVE  JournalInv'
  BY <1>2, PutsStay
<1>3. ASSUME NEW c \in Caller,
             \/ Served(c, "alter") \/ AlterServed(c) \/ AlterFound(c)
             \/ FindTombstone(c) \/ FindEntry(c) \/ FindId(c)
      PROVE  JournalInv'
  BY <1>3, CalmStay
<1>4. ASSUME NEW c \in Caller, PutRetention(c) \/ Journal(c) PROVE JournalInv'
  BY <1>4, AlterStays
<1>5. ASSUME NEW c \in Caller, AlterUnknown(c) \/ DroppedTopic(c) PROVE JournalInv'
  BY <1>5, FailedStays
<1>6. CASE (\E b \in Broker : Expire(b)) \/ (\E w \in late : LateLands(w)) \/ UNCHANGED catalogVars
  BY <1>6, RestStays
<1> QED
  BY <1>1, <1>2, <1>3, <1>4, <1>5, <1>6 DEF CatalogNext

(* A topic looks the same from every side, and its configuration says what *)
(* was journalled last (RetentionJournalled: alter_one of alter_configs.rs *)
(* under topic_lifecycle_write), where alters are made at one broker: each *)
(* broker has a lock of its own.                                           *)
THEOREM TopicsSafety == ASSUME AltersAtOneBroker PROVE CatalogSpec => []TopicsSound
<1>1. CatalogInit => JournalInv
  <2> SUFFICES ASSUME CatalogInit PROVE JournalInv
    OBVIOUS
  <2>1. store.retention = "unset" /\ journal = "unset" /\ late = {}
    BY DEF CatalogInit
  <2>2. ASSUME NEW c \in Caller PROVE ~Altering(c)
    BY DEF CatalogInit, Altering, Stage, Finding
  <2> QED BY <2>1, <2>2 DEF JournalInv
<1>2. CatalogInv /\ CatalogInv' /\ JournalInv /\ [CatalogNext]_catalogVars => JournalInv'
  BY JournalKeeps
<1>3. CatalogInv /\ JournalInv => RetentionJournalled
  <2> SUFFICES ASSUME CatalogInv, JournalInv, \A b \in Broker : guards[b].writer = Nobody,
                      journal # "?", Visible
               PROVE  store.retention = journal
    BY DEF RetentionJournalled
  <2>1. ASSUME NEW c \in Caller PROVE ~Altering(c)
    <3>1. SUFFICES ASSUME Altering(c) PROVE FALSE
      OBVIOUS
    <3>2. guards[At(c)].writer = c
      BY <3>1, AlterHolds DEF Altering
    <3>3. At(c) \in Broker
      BY CatalogAssumption DEF CatalogInv, TopicTypes, At
    <3> QED BY <3>2, <3>3, CatalogAssumption
  <2> QED BY <2>1 DEF JournalInv, Visible
<1>4. CatalogSpec => [](DeletedForgotten /\ CreatorLists)
  BY ForgottenSafety
<1> QED
  BY <1>1, <1>2, <1>3, <1>4, CatalogStarts, CatalogKeeps, PTL DEF CatalogSpec, TopicsSound
=============================================================================
