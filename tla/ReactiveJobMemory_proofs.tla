---------------------- MODULE ReactiveJobMemory_proofs ----------------------
(***************************************************************************)
(* Proofs about shared memory, for any number of clients, any labels and   *)
(* any number of versions: whatever is labelled, copied and written, nobody*)
(* finds in their hands what somebody else put there.                      *)
(***************************************************************************)
EXTENDS ReactiveJobMemory, TLAPS

-----------------------------------------------------------------------------
(* Addresses and the heap *)

LEMMA AddressFacts ==
  /\ \A who, version, field : Address(who, version, field) # Nil
  /\ \A who, version, field, who2, version2, field2 :
       Address(who, version, field) = Address(who2, version2, field2) =>
         who = who2 /\ version = version2 /\ field = field2
BY DEF Address, Nil

\* later differs from h only in what who made for the version.
Touches(who, version, h, later) ==
  /\ DOMAIN h \subseteq DOMAIN later
  /\ \A a \in DOMAIN h : later[a] = h[a] \/ \E field : a = Address(who, version, field)

\* versions has grown into later.
Grown(versions, later) ==
  /\ Len(versions) \in Nat /\ Len(later) \in Nat
  /\ Len(versions) <= Len(later)
  /\ DOMAIN versions = 1..Len(versions) /\ DOMAIN later = 1..Len(later)
  /\ \A v \in DOMAIN versions : later[v] = versions[v]

LEMMA TouchesTwice ==
  ASSUME NEW who, NEW version, NEW h, NEW h2, NEW h3,
         Touches(who, version, h, h2), Touches(who, version, h2, h3)
  PROVE  Touches(who, version, h, h3)
BY DEF Touches

LEMMA TouchesNothing ==
  ASSUME NEW who, NEW version, NEW h PROVE Touches(who, version, h, h)
BY DEF Touches

\* An object that who did not make for the version stays as it is.
LEMMA Untouched ==
  ASSUME NEW who, NEW version, NEW h, NEW later, Touches(who, version, h, later),
         NEW versions, NEW grown, Grown(versions, grown),
         NEW owner, NEW obj, ObjectOK(owner, h, versions, obj),
         owner # who \/ obj.version # version
  PROVE  ObjectOK(owner, later, grown, obj) /\ Content(later, obj) = Content(h, obj)
<1>1. \A field : /\ Address(owner, obj.version, field) \in DOMAIN h =>
                      later[Address(owner, obj.version, field)]
                        = h[Address(owner, obj.version, field)]
  BY AddressFacts DEF Touches
<1>2. /\ At(later, obj.labels) = At(h, obj.labels)
      /\ At(later, obj.conds) = At(h, obj.conds)
  BY <1>1 DEF ObjectOK, At
<1>3. Content(later, obj) = Content(h, obj)
  BY <1>2 DEF Content
<1>4. obj \in [version : 0..Len(grown), fin : BOOLEAN,
               labels : DOMAIN later \cup {Nil}, conds : DOMAIN later \cup {Nil}]
  <2>1. 0..Len(versions) \subseteq 0..Len(grown)
    BY DEF Grown
  <2>2. DOMAIN h \subseteq DOMAIN later
    BY DEF Touches
  <2> QED BY <2>1, <2>2 DEF ObjectOK
<1> QED BY <1>3, <1>4 DEF ObjectOK

\* new has the content, and what was in h.
IsNew(new, h, a, content) ==
  /\ At(new.heap, new.at) = content
  /\ new.at \in {a, Nil}
  /\ new.at \in DOMAIN new.heap \cup {Nil}
  /\ DOMAIN h \subseteq DOMAIN new.heap
  /\ \A b \in DOMAIN h \ {a} : new.heap[b] = h[b]

LEMMA NewFacts ==
  ASSUME NEW h, NEW a, a # Nil, NEW content
  PROVE  IsNew(New(h, a, content), h, a, content)
<1>1. CASE content = {}
  BY <1>1 DEF New, At, IsNew
<1>2. CASE content # {}
  BY <1>2 DEF New, At, IsNew
<1> QED BY <1>1, <1>2

LEMMA DecodeFacts ==
  ASSUME NEW h, NEW who, NEW versions, NEW version \in 0..Len(versions),
         NEW object \in Object
  PROVE  LET new == Decode(h, who, version, object)
         IN  /\ Touches(who, version, h, new.heap)
             /\ ObjectOK(who, new.heap, versions, new.obj)
             /\ Content(new.heap, new.obj) = object
             /\ new.obj.version = version
<1> DEFINE a == Address(who, version, "labels")
           b == Address(who, version, "conds")
           labels == New(h, a, object.labels)
           conds  == New(labels.heap, b, object.conds)
           obj == [version |-> version, fin |-> object.fin,
                   labels |-> labels.at, conds |-> conds.at]
<1>1. a # Nil /\ b # Nil /\ a # b
  BY AddressFacts
<1>2. /\ At(labels.heap, labels.at) = object.labels
      /\ labels.at \in {a, Nil}
      /\ labels.at \in DOMAIN labels.heap \cup {Nil}
      /\ DOMAIN h \subseteq DOMAIN labels.heap
      /\ \A c \in DOMAIN h \ {a} : labels.heap[c] = h[c]
  <2>1. IsNew(labels, h, a, object.labels)
    BY <1>1, NewFacts
  <2> HIDE DEF labels, a
  <2> QED BY <2>1 DEF IsNew
<1>3. /\ At(conds.heap, conds.at) = object.conds
      /\ conds.at \in {b, Nil}
      /\ conds.at \in DOMAIN conds.heap \cup {Nil}
      /\ DOMAIN labels.heap \subseteq DOMAIN conds.heap
      /\ \A c \in DOMAIN labels.heap \ {b} : conds.heap[c] = labels.heap[c]
  <2>1. IsNew(conds, labels.heap, b, object.conds)
    BY <1>1, NewFacts
  <2> HIDE DEF labels, conds, b
  <2> QED BY <2>1 DEF IsNew
<1>4. Decode(h, who, version, object) = [heap |-> conds.heap, obj |-> obj]
  BY DEF Decode
<1> HIDE DEF labels, conds
<1>5. At(conds.heap, labels.at) = object.labels
  BY <1>1, <1>2, <1>3 DEF At
<1>6. object = [fin |-> object.fin, labels |-> object.labels, conds |-> object.conds]
  BY DEF Object
<1>7. Content(conds.heap, obj) = object
  BY <1>3, <1>5, <1>6 DEF Content
<1>8. Touches(who, version, h, conds.heap)
  <2> HIDE DEF a, b
  <2>1. \A c \in DOMAIN h : conds.heap[c] = h[c] \/ c = a \/ c = b
    BY <1>2, <1>3
  <2> QED BY <1>2, <1>3, <2>1 DEF Touches, a, b
<1>9. ObjectOK(who, conds.heap, versions, obj)
  BY <1>2, <1>3, <1>7 DEF ObjectOK, Object
<1> QED BY <1>4, <1>7, <1>8, <1>9

LEMMA ConditionType ==
  \A state : ReadyCondition(state) \in Conditions
BY DEF ReadyCondition, Conditions

\* A new map or slice for a field of obj, or another content of the one there is.
LEMMA ConditionFacts ==
  ASSUME NEW h, NEW who, NEW versions, NEW obj, ObjectOK(who, h, versions, obj),
         NEW state
  PROVE  LET new == SetCondition(h, who, obj, state)
         IN  /\ Touches(who, obj.version, h, new.heap)
             /\ ObjectOK(who, new.heap, versions, new.obj)
             /\ Content(new.heap, new.obj).labels = Content(h, obj).labels
             /\ new.obj.version = obj.version
<1> DEFINE b == Address(who, obj.version, "conds")
           status == {ReadyCondition(state)}
           conds == New(h, b, status)
           new == [obj EXCEPT !.conds = conds.at]
<1>1. /\ b # Nil /\ b # Address(who, obj.version, "labels")
      /\ (IF obj.conds = Nil THEN b ELSE obj.conds) = b
  BY AddressFacts DEF ObjectOK
<1>2. /\ At(conds.heap, conds.at) = status
      /\ conds.at \in {b, Nil}
      /\ conds.at \in DOMAIN conds.heap \cup {Nil}
      /\ DOMAIN h \subseteq DOMAIN conds.heap
      /\ \A c \in DOMAIN h \ {b} : conds.heap[c] = h[c]
  <2>1. IsNew(conds, h, b, status)
    BY <1>1, NewFacts
  <2> HIDE DEF conds, b, status
  <2> QED BY <2>1 DEF IsNew
<1>3. SetCondition(h, who, obj, state) = [heap |-> conds.heap, obj |-> new]
  BY <1>1 DEF SetCondition
<1> HIDE DEF conds
<1>4. /\ new.version = obj.version /\ new.fin = obj.fin /\ new.labels = obj.labels
      /\ new.conds = conds.at
      /\ new \in [version : 0..Len(versions), fin : BOOLEAN,
                  labels : DOMAIN conds.heap \cup {Nil},
                  conds : DOMAIN conds.heap \cup {Nil}]
  BY <1>2 DEF ObjectOK
<1>5. At(conds.heap, obj.labels) = At(h, obj.labels)
  BY <1>1, <1>2 DEF ObjectOK, At
<1>6. status \in Statuses
  BY ConditionType DEF Statuses
<1> HIDE DEF status, new
<1>7. /\ Content(conds.heap, new).labels = Content(h, obj).labels
      /\ Content(conds.heap, new) \in Object
  BY <1>2, <1>4, <1>5, <1>6 DEF Content, ObjectOK, Object
<1>8. ObjectOK(who, conds.heap, versions, new)
  BY <1>2, <1>4, <1>7 DEF ObjectOK
<1>9. Touches(who, obj.version, h, conds.heap)
  BY <1>2 DEF Touches
<1> QED BY <1>3, <1>4, <1>7, <1>8, <1>9

\* Labels are added to the map of the template, if there is one.
LEMMA JobLabelsFacts ==
  ASSUME NEW h, NEW who, NEW versions, NEW obj, ObjectOK(who, h, versions, obj),
         NEW labels \in SUBSET Labels
  PROVE  /\ Touches(who, obj.version, h, WithJobLabels(h, obj, labels))
         /\ ObjectOK(who, WithJobLabels(h, obj, labels), versions, obj)
<1>1. CASE obj.labels = Nil
  BY <1>1, TouchesNothing DEF WithJobLabels
<1>2. CASE obj.labels # Nil
  <2> DEFINE later == [h EXCEPT ![obj.labels] = h[obj.labels] \cup labels]
  <2>1. WithJobLabels(h, obj, labels) = later
    BY <1>2 DEF WithJobLabels
  <2>2. obj.labels = Address(who, obj.version, "labels") /\ obj.labels \in DOMAIN h
    BY <1>2 DEF ObjectOK
  <2>3. DOMAIN later = DOMAIN h /\ \A a \in DOMAIN h \ {obj.labels} : later[a] = h[a]
    OBVIOUS
  <2>4. later[obj.labels] = h[obj.labels] \cup labels
    BY <2>2
  <2> HIDE DEF later
  <2>5. Touches(who, obj.version, h, later)
    BY <2>2, <2>3 DEF Touches
  <2>6. At(later, obj.conds) = At(h, obj.conds)
    BY <2>2, <2>3, AddressFacts DEF ObjectOK, At
  <2>7. Content(later, obj) \in Object
    BY <1>2, <2>4, <2>6 DEF ObjectOK, Content, Object, At
  <2> QED BY <2>1, <2>3, <2>5, <2>7 DEF ObjectOK
<1> QED BY <1>1, <1>2

LEMMA AddLabelFacts ==
  ASSUME NEW h, NEW who, NEW versions, NEW obj, ObjectOK(who, h, versions, obj),
         NEW label \in UserLabels
  PROVE  LET new == AddLabel(h, who, obj, label)
         IN  /\ Touches(who, obj.version, h, new.heap)
             /\ ObjectOK(who, new.heap, versions, new.obj)
             /\ Content(new.heap, new.obj).labels = Content(h, obj).labels \cup {label}
             /\ new.obj.version = obj.version
<1> DEFINE a == Address(who, obj.version, "labels")
           content == At(h, obj.labels) \cup {label}
           labels == New(h, a, content)
           new == [obj EXCEPT !.labels = labels.at]
<1>1. /\ a # Nil /\ a # Address(who, obj.version, "conds")
      /\ (IF obj.labels = Nil THEN a ELSE obj.labels) = a
  BY AddressFacts DEF ObjectOK
<1>2. /\ At(labels.heap, labels.at) = content
      /\ labels.at \in {a, Nil}
      /\ labels.at \in DOMAIN labels.heap \cup {Nil}
      /\ DOMAIN h \subseteq DOMAIN labels.heap
      /\ \A b \in DOMAIN h \ {a} : labels.heap[b] = h[b]
  <2>1. IsNew(labels, h, a, content)
    BY <1>1, NewFacts
  <2> HIDE DEF labels, a, content
  <2> QED BY <2>1 DEF IsNew
<1>3. AddLabel(h, who, obj, label) = [heap |-> labels.heap, obj |-> new]
  BY <1>1 DEF AddLabel
<1> HIDE DEF labels
<1>4. /\ new.version = obj.version /\ new.fin = obj.fin /\ new.conds = obj.conds
      /\ new.labels = labels.at
      /\ new \in [version : 0..Len(versions), fin : BOOLEAN,
                  labels : DOMAIN labels.heap \cup {Nil},
                  conds : DOMAIN labels.heap \cup {Nil}]
  BY <1>2 DEF ObjectOK
<1>5. At(labels.heap, obj.conds) = At(h, obj.conds)
  BY <1>1, <1>2 DEF ObjectOK, At
<1>6. content = Content(h, obj).labels \cup {label}
  BY DEF Content
<1> HIDE DEF content, new
<1>7. Content(labels.heap, new) = [Content(h, obj) EXCEPT !.labels = content]
  BY <1>2, <1>4, <1>5 DEF Content
<1>8. /\ Content(labels.heap, new).labels = Content(h, obj).labels \cup {label}
      /\ Content(labels.heap, new) \in Object
  BY <1>6, <1>7 DEF Content, ObjectOK, Object, Labels
<1>9. ObjectOK(who, labels.heap, versions, new)
  BY <1>2, <1>4, <1>8 DEF ObjectOK
<1>10. Touches(who, obj.version, h, labels.heap)
  BY <1>2 DEF Touches
<1> QED BY <1>3, <1>4, <1>8, <1>9, <1>10

-----------------------------------------------------------------------------
(* What somebody else does *)

LEMMA KeepsCached ==
  ASSUME NEW who, NEW version, NEW h, NEW later, Touches(who, version, h, later),
         NEW versions, NEW grown, Grown(versions, grown),
         NEW obj, CachedOK(h, versions, obj), who # "cache" \/ obj.version # version
  PROVE  CachedOK(later, grown, obj)
<1>1. ObjectOK("cache", later, grown, obj) /\ Content(later, obj) = Content(h, obj)
  BY Untouched DEF CachedOK
<1>2. obj # NoObject => obj.version \in DOMAIN grown
                        /\ grown[obj.version] = versions[obj.version]
  BY DEF CachedOK, Grown
<1> QED BY <1>1, <1>2 DEF CachedOK

LEMMA KeepsMine ==
  ASSUME NEW who, NEW version, NEW h, NEW later, Touches(who, version, h, later),
         NEW versions, NEW grown, Grown(versions, grown),
         NEW c, NEW obj, MineOK(c, h, versions, obj), who # c
  PROVE  MineOK(c, later, grown, obj)
<1>1. ObjectOK(c, later, grown, obj) /\ Content(later, obj) = Content(h, obj)
  BY Untouched DEF MineOK
<1>2. obj # NoObject => obj.version \in DOMAIN grown
                        /\ grown[obj.version] = versions[obj.version]
  BY DEF MineOK, Grown
<1> QED BY <1>1, <1>2 DEF MineOK

LEMMA KeepsCopy ==
  ASSUME NEW who, NEW version, NEW h, NEW later, Touches(who, version, h, later),
         NEW versions, NEW grown, Grown(versions, grown),
         NEW next, NEW obj, CopyOK(next, h, versions, obj), who # "reconciler"
  PROVE  CopyOK(next, later, grown, obj)
<1>1. ObjectOK("reconciler", later, grown, obj) /\ Content(later, obj) = Content(h, obj)
  BY Untouched DEF CopyOK
<1>2. next = "list" => obj.version \in DOMAIN grown
                       /\ grown[obj.version] = versions[obj.version]
  BY DEF CopyOK, Grown
<1> QED BY <1>1, <1>2 DEF CopyOK

-----------------------------------------------------------------------------
(* What is stored *)

IsFunctionOfClients(f) == f = [c \in Clients |-> f[c]]

\* What somebody holds is stored with its contents.
LEMMA StoreKeepsObject ==
  ASSUME NEW h, Store(h), NEW versions, NEW who, NEW obj \in Held',
         ObjectOK(who, h, versions, obj)
  PROVE  ObjectOK(who, heap', versions, obj) /\ Content(heap', obj) = Content(h, obj)
<1>1. /\ obj.labels \in DOMAIN heap' \cup {Nil} /\ obj.conds \in DOMAIN heap' \cup {Nil}
      /\ DOMAIN heap' = Reachable'
  BY DEF Store, Restrict, Reachable
<1>2. \A a \in DOMAIN heap' : heap'[a] = h[a]
  BY DEF Store, Restrict
<1>3. Content(heap', obj) = Content(h, obj)
  BY <1>1, <1>2 DEF Content, At
<1> QED BY <1>1, <1>3 DEF ObjectOK

LEMMA StoreKeeps ==
  ASSUME NEW h, Store(h), NEW versions,
         IsFunctionOfClients(listed'), IsFunctionOfClients(mine'),
         HeldOK(h, versions, cache', listed', mine', pc', copy')
  PROVE  /\ HeldOK(heap', versions, cache', listed', mine', pc', copy')
         /\ DOMAIN heap' = Reachable'
<1>1. /\ cache' \in Held' /\ copy' \in Held'
      /\ \A c \in Clients : listed'[c] \in Held' /\ mine'[c] \in Held'
  BY DEF Held, Range, IsFunctionOfClients
<1>2. CachedOK(heap', versions, cache')
  BY <1>1, StoreKeepsObject DEF HeldOK, CachedOK
<1>3. ASSUME NEW c \in Clients
      PROVE  /\ CachedOK(heap', versions, listed'[c])
             /\ listed'[c].version <= cache'.version
             /\ MineOK(c, heap', versions, mine'[c])
  <2>1. CachedOK(heap', versions, listed'[c])
    BY <1>1, StoreKeepsObject DEF HeldOK, CachedOK
  <2>2. MineOK(c, heap', versions, mine'[c])
    BY <1>1, StoreKeepsObject DEF HeldOK, MineOK
  <2> QED BY <2>1, <2>2 DEF HeldOK
<1>4. CopyOK(pc', heap', versions, copy')
  BY <1>1, StoreKeepsObject DEF HeldOK, CopyOK
<1>5. DOMAIN heap' = Reachable'
  BY DEF Store, Restrict
<1> QED BY <1>2, <1>3, <1>4, <1>5 DEF HeldOK

-----------------------------------------------------------------------------
(* The API server *)

LEMMA ServerFacts ==
  ASSUME MemoryInv
  PROVE  /\ Len(history) \in 1..MaxVersion /\ Len(history) \in Nat
         /\ DOMAIN history = 1..Len(history)
         /\ \A v \in DOMAIN history : history[v] \in Object
         /\ Len(history) \in DOMAIN history
         /\ Server \in Object /\ Server.labels = wanted /\ wanted \subseteq UserLabels
         /\ Grown(history, history)
<1>1. /\ Len(history) \in 1..MaxVersion /\ Len(history) \in Nat
      /\ DOMAIN history = 1..Len(history)
      /\ \A v \in DOMAIN history : history[v] \in Object
  BY MaxVersionAssumption DEF MemoryInv, MemoryTypeOK
<1>2. Len(history) \in DOMAIN history
  BY <1>1
<1> QED BY <1>1, <1>2 DEF MemoryInv, VersionsOK, TemplateIsTheUsers, Server, Grown

\* What the versions and the newest job have to do with each other, after a step.
HistoryStep ==
  /\ history' \in Seq(Object) /\ Len(history') \in 1..MaxVersion
  /\ VersionsOK'
  /\ newest' \in [labels : SUBSET Labels, version : 0..MaxVersion]
  /\ Grown(history, history')

LEMMA NothingWritten ==
  ASSUME MemoryInv, UNCHANGED <<history, wanted, newest>>
  PROVE  HistoryStep
BY ServerFacts
   DEF HistoryStep, MemoryInv, MemoryTypeOK, VersionsOK, TemplateIsTheUsers, Server,
       HashIsOfTheSpec

LEMMA OneWritten ==
  ASSUME MemoryInv, NEW object \in Object, Write(object),
         object.labels \subseteq UserLabels, wanted' = object.labels, UNCHANGED newest
  PROVE  /\ HistoryStep
         /\ Len(history') = Len(history) + 1
         /\ Len(history) + 1 \in DOMAIN history'
         /\ history'[Len(history) + 1] = object
<1>1. /\ history \in Seq(Object) /\ Len(history) < MaxVersion
      /\ history' = Append(history, object)
  BY DEF MemoryInv, MemoryTypeOK, Write
<1>2. /\ history' \in Seq(Object)
      /\ Len(history') = Len(history) + 1
      /\ DOMAIN history' = 1..Len(history) + 1
      /\ history'[Len(history) + 1] = object
      /\ \A v \in 1..Len(history) : history'[v] = history[v]
  BY <1>1
<1>3. Len(history') \in 1..MaxVersion
  BY <1>1, <1>2, ServerFacts, MaxVersionAssumption
<1>4. Grown(history, history')
  BY <1>2, ServerFacts DEF Grown
<1>5. VersionsOK'
  <2>1. \A v \in DOMAIN history' : history'[v].labels \subseteq UserLabels
    BY <1>2, ServerFacts DEF MemoryInv, VersionsOK
  <2>2. TemplateIsTheUsers'
    BY <1>2 DEF TemplateIsTheUsers, Server
  <2>3. newest' # NoHash => newest'.version \in DOMAIN history' /\ HashIsOfTheSpec'
    BY <1>2, ServerFacts DEF MemoryInv, VersionsOK, HashIsOfTheSpec
  <2>4. newest' = NoHash => HashIsOfTheSpec'
    BY DEF HashIsOfTheSpec
  <2> QED BY <2>1, <2>2, <2>3, <2>4 DEF VersionsOK
<1> QED BY <1>2, <1>3, <1>4, <1>5, ServerFacts
        DEF HistoryStep, MemoryInv, MemoryTypeOK

-----------------------------------------------------------------------------
(* Steps *)

HoldersStep ==
  /\ IsFunctionOfClients(listed') /\ IsFunctionOfClients(mine')
  /\ DOMAIN heap' = Reachable'
  /\ HeldOK(heap', history', cache', listed', mine', pc', copy')

LEMMA StepKeepsInv ==
  ASSUME HistoryStep, HoldersStep, pc' \in {"idle", "list", "status"}
  PROVE  MemoryInv'
<1>1. /\ {cache, copy}' \subseteq Pointers'
      /\ listed' \in [Clients -> Pointers'] /\ mine' \in [Clients -> Pointers']
  <2>1. Len(history') \in 0..MaxVersion
    BY MaxVersionAssumption DEF HistoryStep
  <2> DEFINE P == [version : 0..MaxVersion, fin : BOOLEAN,
                   labels : DOMAIN heap' \cup {Nil}, conds : DOMAIN heap' \cup {Nil}]
  <2>2. Pointers' = P
    BY DEF Pointers
  <2>3. 0..Len(history') \subseteq 0..MaxVersion
    BY <2>1, MaxVersionAssumption
  <2>4. \A who, obj : ObjectOK(who, heap', history', obj) => obj \in P
    BY <2>3 DEF ObjectOK
  <2>5. /\ cache' \in P /\ copy' \in P
        /\ \A c \in Clients : listed'[c] \in P /\ mine'[c] \in P
    BY <2>4 DEF HoldersStep, HeldOK, CachedOK, MineOK, CopyOK
  <2> HIDE DEF P
  <2> QED BY <2>2, <2>5 DEF HoldersStep, IsFunctionOfClients
<1>2. wanted' \in SUBSET UserLabels
  <2>1. Len(history') \in DOMAIN history'
    BY DEF HistoryStep
  <2> QED BY <2>1 DEF HistoryStep, VersionsOK, TemplateIsTheUsers, Server
<1>3. MemoryTypeOK'
  BY <1>1, <1>2 DEF HistoryStep, HoldersStep, MemoryTypeOK
<1> QED BY <1>3 DEF MemoryInv, HistoryStep, HoldersStep

LEMMA HoldersFacts ==
  ASSUME MemoryInv
  PROVE  /\ IsFunctionOfClients(listed) /\ IsFunctionOfClients(mine)
         /\ HeldOK(heap, history, cache, listed, mine, pc, copy)
         /\ CachedOK(heap, history, cache) /\ CopyOK(pc, heap, history, copy)
         /\ \A c \in Clients : /\ CachedOK(heap, history, listed[c])
                               /\ listed[c].version <= cache.version
                               /\ MineOK(c, heap, history, mine[c])
                               /\ c # "cache" /\ c # "reconciler"
                               /\ listed[c].version \in Nat
         /\ cache.version \in Nat /\ copy.version \in 0..Len(history)
         /\ pc \in {"idle", "list", "status"}
BY ClientsAssumption
   DEF MemoryInv, MemoryTypeOK, HeldOK, CachedOK, CopyOK, ObjectOK, IsFunctionOfClients

\* Nobody but client c has another object.
LEMMA ClientStep ==
  ASSUME MemoryInv, NEW c \in Clients, NEW version, NEW new,
         Touches(c, version, heap, new.heap), Grown(history, history'),
         MineOK(c, new.heap, history', new.obj),
         mine' = [mine EXCEPT ![c] = new.obj],
         UNCHANGED <<cache, listed, reconcilerVars>>, Store(new.heap)
  PROVE  HoldersStep /\ pc' \in {"idle", "list", "status"}
<1>1. IsFunctionOfClients(listed') /\ IsFunctionOfClients(mine')
  BY HoldersFacts DEF IsFunctionOfClients
<1>2. CachedOK(new.heap, history', cache')
  BY HoldersFacts, KeepsCached
<1>3. ASSUME NEW d \in Clients
      PROVE  /\ CachedOK(new.heap, history', listed'[d])
             /\ listed'[d].version <= cache'.version
             /\ MineOK(d, new.heap, history', mine'[d])
  <2>1. CachedOK(new.heap, history', listed'[d])
    BY HoldersFacts, KeepsCached
  <2>2. listed'[d].version <= cache'.version
    BY HoldersFacts
  <2>3. CASE d = c
    <3>1. mine'[d] = new.obj
      BY <2>3, HoldersFacts DEF IsFunctionOfClients
    <3> QED BY <2>1, <2>2, <2>3, <3>1
  <2>4. CASE d # c
    <3>1. mine'[d] = mine[d]
      BY <2>4, HoldersFacts DEF IsFunctionOfClients
    <3>2. MineOK(d, new.heap, history', mine[d])
      BY <2>4, HoldersFacts, KeepsMine
    <3> QED BY <2>1, <2>2, <3>1, <3>2
  <2> QED BY <2>3, <2>4
<1>4. CopyOK(pc', new.heap, history', copy') /\ pc' = pc
  BY HoldersFacts, KeepsCopy DEF reconcilerVars
<1>5. HeldOK(new.heap, history', cache', listed', mine', pc', copy')
  BY <1>2, <1>3, <1>4 DEF HeldOK
<1> QED BY <1>1, <1>4, <1>5, StoreKeeps, HoldersFacts DEF HoldersStep

\* Nobody but the reconciler has another object.
LEMMA ReconcilerStep ==
  ASSUME MemoryInv, NEW version, NEW new, NEW next \in {"idle", "list", "status"},
         Touches("reconciler", version, heap, new.heap), Grown(history, history'),
         CopyOK(next, new.heap, history', new.obj), Goes(next, new)
  PROVE  HoldersStep /\ pc' \in {"idle", "list", "status"}
<1>1. /\ pc' = next /\ copy' = new.obj /\ Store(new.heap)
      /\ cache' = cache /\ listed' = listed /\ mine' = mine
  BY DEF Goes, clientVars
<1>2. IsFunctionOfClients(listed') /\ IsFunctionOfClients(mine')
  BY <1>1, HoldersFacts
<1>3. CachedOK(new.heap, history', cache')
  BY <1>1, HoldersFacts, KeepsCached
<1>4. ASSUME NEW d \in Clients
      PROVE  /\ CachedOK(new.heap, history', listed'[d])
             /\ listed'[d].version <= cache'.version
             /\ MineOK(d, new.heap, history', mine'[d])
  <2>1. CachedOK(new.heap, history', listed'[d])
    BY <1>1, HoldersFacts, KeepsCached
  <2>2. MineOK(d, new.heap, history', mine'[d])
    BY <1>1, HoldersFacts, KeepsMine
  <2> QED BY <1>1, <2>1, <2>2, HoldersFacts
<1>5. HeldOK(new.heap, history', cache', listed', mine', pc', copy')
  BY <1>1, <1>3, <1>4 DEF HeldOK
<1> QED BY <1>1, <1>2, <1>5, StoreKeeps DEF HoldersStep

-----------------------------------------------------------------------------
(* Users, the informer and its lister *)

LEMMA NoObjectFacts ==
  ASSUME NEW who, NEW h, NEW versions, Len(versions) \in Nat
  PROVE  ObjectOK(who, h, versions, NoObject)
BY DEF ObjectOK, NoObject, Content, At, Object, Statuses

\* The labels change, and nobody's object.
LEMMA UserWritesStep ==
  ASSUME MemoryInv, UserWrites
  PROVE  MemoryInv'
<1>1. PICK labels \in SUBSET UserLabels :
        Write([Server EXCEPT !.labels = labels]) /\ wanted' = labels
  BY DEF UserWrites
<1> DEFINE object == [Server EXCEPT !.labels = labels]
<1>2. object \in Object /\ object.labels = labels
  BY ServerFacts DEF Object, Labels
<1>3. UNCHANGED <<heap, cache, listed, mine, copy, pc, newest>>
  BY DEF UserWrites, clientVars, reconcilerVars
<1> HIDE DEF object
<1>4. HistoryStep
  <2>1. Write(object)
    BY <1>1 DEF object
  <2> QED BY <1>1, <1>2, <1>3, <2>1, OneWritten
<1>5. Grown(history, history') /\ Touches("cache", -1, heap, heap)
  BY <1>4, TouchesNothing DEF HistoryStep
<1>6. CachedOK(heap, history', cache)
  BY <1>5, HoldersFacts, KeepsCached
<1>7. \A c \in Clients : CachedOK(heap, history', listed[c])
  BY <1>5, HoldersFacts, KeepsCached
<1>8. \A c \in Clients : MineOK(c, heap, history', mine[c])
  BY <1>5, HoldersFacts, KeepsMine
<1>9. CopyOK(pc, heap, history', copy)
  BY <1>5, HoldersFacts, KeepsCopy
<1>10. HeldOK(heap, history', cache, listed, mine, pc, copy)
  BY <1>6, <1>7, <1>8, <1>9, HoldersFacts DEF HeldOK
<1>11. HoldersStep
  BY <1>3, <1>10, HoldersFacts
     DEF HoldersStep, MemoryInv, MemoryTypeOK, Reachable, Held, IsFunctionOfClients
<1> QED BY <1>3, <1>4, <1>11, StepKeepsInv, HoldersFacts

\* The new object in the cache is newer than everything the lister returned.
LEMMA InformerStep ==
  ASSUME MemoryInv, Informer
  PROVE  MemoryInv'
<1>1. PICK version \in cache.version + 1..Len(history) : InformerKeeps(version)
  BY DEF Informer
<1> DEFINE new == Decode(heap, "cache", version, history[version])
<1>2. /\ cache' = new.obj /\ Store(new.heap)
      /\ UNCHANGED <<history, wanted, listed, mine, copy, pc, newest>>
  BY <1>1 DEF InformerKeeps, reconcilerVars
<1>3. /\ version \in DOMAIN history /\ version \in 0..Len(history)
      /\ history[version] \in Object
      /\ cache.version < version
      /\ \A c \in Clients : listed[c].version < version
  BY ServerFacts, HoldersFacts
<1>4. /\ Touches("cache", version, heap, new.heap)
      /\ ObjectOK("cache", new.heap, history, new.obj)
      /\ Content(new.heap, new.obj) = history[version]
      /\ new.obj.version = version
  BY <1>3, DecodeFacts
<1> HIDE DEF new
<1>5. CachedOK(new.heap, history, new.obj)
  BY <1>3, <1>4 DEF CachedOK
<1>6. ASSUME NEW c \in Clients
      PROVE  /\ CachedOK(new.heap, history, listed[c])
             /\ listed[c].version <= new.obj.version
             /\ MineOK(c, new.heap, history, mine[c])
  <2>1. CachedOK(new.heap, history, listed[c])
    BY <1>3, <1>4, ServerFacts, HoldersFacts, KeepsCached
  <2>2. MineOK(c, new.heap, history, mine[c])
    BY <1>4, ServerFacts, HoldersFacts, KeepsMine
  <2> QED BY <1>3, <1>4, <2>1, <2>2, HoldersFacts
<1>7. CopyOK(pc, new.heap, history, copy)
  BY <1>4, ServerFacts, HoldersFacts, KeepsCopy
<1>8. HeldOK(new.heap, history', cache', listed', mine', pc', copy')
  BY <1>2, <1>5, <1>6, <1>7 DEF HeldOK
<1>9. HoldersStep
  BY <1>2, <1>8, HoldersFacts, StoreKeeps DEF HoldersStep, IsFunctionOfClients
<1> QED BY <1>2, <1>9, NothingWritten, StepKeepsInv, HoldersFacts

LEMMA ListerGetsStep ==
  ASSUME MemoryInv, NEW c \in Clients, ListerGets(c)
  PROVE  MemoryInv'
<1>1. /\ listed' = [listed EXCEPT ![c] = cache] /\ Store(heap)
      /\ UNCHANGED <<history, wanted, cache, mine, copy, pc, newest>>
  BY DEF ListerGets, reconcilerVars
<1>2. /\ IsFunctionOfClients(listed') /\ IsFunctionOfClients(mine')
      /\ \A d \in Clients : listed'[d] = cache \/ listed'[d] = listed[d]
  BY <1>1, HoldersFacts DEF IsFunctionOfClients
<1>3. HeldOK(heap, history', cache', listed', mine', pc', copy')
  <2>1. cache.version <= cache.version
    BY HoldersFacts
  <2> QED BY <1>1, <1>2, <2>1, HoldersFacts DEF HeldOK
<1>4. HoldersStep
  BY <1>1, <1>2, <1>3, StoreKeeps DEF HoldersStep
<1> QED BY <1>1, <1>4, NothingWritten, StepKeepsInv, HoldersFacts

-----------------------------------------------------------------------------
(* Users of the client *)

\* A client that has another object, or other contents of it.
LEMMA WorksStep ==
  ASSUME MemoryInv, NEW c \in Clients, NEW version, NEW new,
         Touches(c, version, heap, new.heap), MineOK(c, new.heap, history, new.obj),
         Works(c, new)
  PROVE  MemoryInv'
<1>1. /\ mine' = [mine EXCEPT ![c] = new.obj] /\ Store(new.heap)
      /\ UNCHANGED <<cache, listed, reconcilerVars>>
      /\ UNCHANGED <<history, wanted, newest>>
  BY DEF Works, reconcilerVars
<1>2. Grown(history, history') /\ MineOK(c, new.heap, history', new.obj)
  BY <1>1, ServerFacts
<1>3. HoldersStep /\ pc' \in {"idle", "list", "status"}
  BY <1>1, <1>2, ClientStep
<1> QED BY <1>1, <1>3, NothingWritten, StepKeepsInv

LEMMA ClientCopiesStep ==
  ASSUME MemoryInv, NEW c \in Clients, ClientCopies(c)
  PROVE  MemoryInv'
<1> DEFINE in == listed[c]
           new == Decode(heap, c, in.version, Content(heap, in))
<1>1. /\ in # NoObject /\ CachedOK(heap, history, in)
      /\ Works(c, new)
  BY HoldersFacts DEF ClientCopies, DeepCopy
<1>2. /\ in.version \in DOMAIN history /\ in.version \in 0..Len(history)
      /\ Content(heap, in) = history[in.version]
      /\ Content(heap, in) \in Object
      /\ Content(heap, in).labels \subseteq UserLabels
  BY <1>1, ServerFacts DEF CachedOK, ObjectOK, MemoryInv, VersionsOK
<1>3. /\ Touches(c, in.version, heap, new.heap)
      /\ ObjectOK(c, new.heap, history, new.obj)
      /\ Content(new.heap, new.obj) = Content(heap, in)
      /\ new.obj.version = in.version
  BY <1>2, DecodeFacts
<1> HIDE DEF new, in
<1>4. MineOK(c, new.heap, history, new.obj)
  BY <1>2, <1>3 DEF MineOK
<1> QED BY <1>1, <1>3, <1>4, WorksStep

LEMMA ClientGetsStep ==
  ASSUME MemoryInv, NEW c \in Clients, ClientGets(c)
  PROVE  MemoryInv'
<1> DEFINE version == Len(history)
           new == Decode(heap, c, version, Server)
<1>1. Works(c, new)
  BY DEF ClientGets
<1>2. /\ version \in 0..Len(history) /\ version \in DOMAIN history
      /\ Server \in Object /\ Server = history[version]
      /\ Server.labels \subseteq UserLabels
  BY ServerFacts DEF Server
<1> HIDE DEF version
<1>3. /\ Touches(c, version, heap, new.heap)
      /\ ObjectOK(c, new.heap, history, new.obj)
      /\ Content(new.heap, new.obj) = Server
      /\ new.obj.version = version
  BY <1>2, DecodeFacts
<1> HIDE DEF new
<1>4. MineOK(c, new.heap, history, new.obj)
  BY <1>2, <1>3 DEF MineOK
<1> QED BY <1>1, <1>3, <1>4, WorksStep

LEMMA ClientLabelsStep ==
  ASSUME MemoryInv, NEW c \in Clients, ClientLabels(c)
  PROVE  MemoryInv'
<1>1. PICK label \in UserLabels : Works(c, AddLabel(heap, c, mine[c], label))
  BY DEF ClientLabels
<1> DEFINE obj == mine[c]
           new == AddLabel(heap, c, obj, label)
<1>2. obj # NoObject /\ MineOK(c, heap, history, obj) /\ ObjectOK(c, heap, history, obj)
  BY HoldersFacts DEF ClientLabels, MineOK
<1>3. /\ Touches(c, obj.version, heap, new.heap)
      /\ ObjectOK(c, new.heap, history, new.obj)
      /\ Content(new.heap, new.obj).labels = Content(heap, obj).labels \cup {label}
      /\ new.obj.version = obj.version
  BY <1>2, AddLabelFacts
<1>4. Works(c, new)
  BY <1>1
<1> HIDE DEF new, obj
<1>5. MineOK(c, new.heap, history, new.obj)
  BY <1>2, <1>3 DEF MineOK
<1> QED BY <1>3, <1>4, <1>5, WorksStep

LEMMA ClientSetsStateStep ==
  ASSUME MemoryInv, NEW c \in Clients, ClientSetsState(c)
  PROVE  MemoryInv'
<1>1. PICK state \in Outcomes : Works(c, SetCondition(heap, c, mine[c], state))
  BY DEF ClientSetsState
<1> DEFINE obj == mine[c]
           new == SetCondition(heap, c, obj, state)
<1>2. obj # NoObject /\ MineOK(c, heap, history, obj) /\ ObjectOK(c, heap, history, obj)
  BY HoldersFacts DEF ClientSetsState, MineOK
<1>3. /\ Touches(c, obj.version, heap, new.heap)
      /\ ObjectOK(c, new.heap, history, new.obj)
      /\ Content(new.heap, new.obj).labels = Content(heap, obj).labels
      /\ new.obj.version = obj.version
  BY <1>2, ConditionFacts
<1>4. Works(c, new)
  BY <1>1
<1> HIDE DEF new, obj
<1>5. MineOK(c, new.heap, history, new.obj)
  BY <1>2, <1>3 DEF MineOK
<1> QED BY <1>3, <1>4, <1>5, WorksStep

\* What the server answers to a client is a new version, and made anew.
LEMMA AnswerStep ==
  ASSUME MemoryInv, NEW c \in Clients, NEW object \in Object,
         object.labels \subseteq UserLabels, wanted' = object.labels, Answer(c, object)
  PROVE  MemoryInv'
<1> DEFINE next == Len(history) + 1
           new == Decode(heap, c, next, object)
<1>1. /\ Write(object) /\ mine' = [mine EXCEPT ![c] = new.obj] /\ Store(new.heap)
      /\ UNCHANGED <<cache, listed, reconcilerVars>> /\ newest' = newest
  BY DEF Answer, reconcilerVars
<1>2. HistoryStep /\ Len(history') = next /\ next \in DOMAIN history' /\ history'[next] = object
  BY <1>1, OneWritten
<1>3. next \in 0..Len(history')
  BY <1>2, ServerFacts
<1>4. /\ Touches(c, next, heap, new.heap)
      /\ ObjectOK(c, new.heap, history', new.obj)
      /\ Content(new.heap, new.obj) = object
      /\ new.obj.version = next
  BY <1>3, DecodeFacts
<1> HIDE DEF new, next
<1>5. MineOK(c, new.heap, history', new.obj) /\ Grown(history, history')
  BY <1>2, <1>4 DEF MineOK, HistoryStep
<1>6. HoldersStep /\ pc' \in {"idle", "list", "status"}
  BY <1>1, <1>4, <1>5, ClientStep
<1> QED BY <1>2, <1>6, StepKeepsInv

\* What an update of a current object leaves in the template.
LEMMA ClientUpdatesFacts ==
  ASSUME MemoryInv, NEW c \in Clients, ClientUpdates(c)
  PROVE  /\ Updated(heap, mine[c]) \in Object
         /\ wanted' = Updated(heap, mine[c]).labels
         /\ wanted \subseteq wanted' /\ wanted' \subseteq UserLabels
<1>1. /\ mine[c] # NoObject /\ mine[c].version = Len(history)
      /\ wanted' = Content(heap, mine[c]).labels
      /\ MineOK(c, heap, history, mine[c])
      /\ Content(heap, mine[c]) \in Object
  BY HoldersFacts DEF ClientUpdates, CurrentVersion, MineOK, ObjectOK
<1>2. /\ Updated(heap, mine[c]) \in Object
      /\ Updated(heap, mine[c]).labels = Content(heap, mine[c]).labels
  BY <1>1, ServerFacts DEF Updated, Object
<1> QED BY <1>1, <1>2, ServerFacts DEF MineOK, Server

LEMMA ClientUpdatesStep ==
  ASSUME MemoryInv, NEW c \in Clients, ClientUpdates(c)
  PROVE  MemoryInv'
<1>1. Answer(c, Updated(heap, mine[c]))
  BY DEF ClientUpdates
<1> QED BY <1>1, ClientUpdatesFacts, AnswerStep

LEMMA StatusUpdatedFacts ==
  ASSUME MemoryInv, NEW obj, Content(heap, obj) \in Object
  PROVE  /\ StatusUpdated(heap, obj) \in Object
         /\ StatusUpdated(heap, obj).labels = Server.labels
BY ServerFacts DEF StatusUpdated, Object

LEMMA ClientUpdatesStatusStep ==
  ASSUME MemoryInv, NEW c \in Clients, ClientUpdatesStatus(c)
  PROVE  MemoryInv'
<1>1. Answer(c, StatusUpdated(heap, mine[c])) /\ wanted' = wanted
  BY DEF ClientUpdatesStatus
<1>2. Content(heap, mine[c]) \in Object
  BY HoldersFacts DEF MineOK, ObjectOK
<1> QED BY <1>1, <1>2, StatusUpdatedFacts, ServerFacts, AnswerStep

-----------------------------------------------------------------------------
(* The reconciler *)

\* What the deferred function, or a report, makes of the copy.
LEMMA ConditionGoes ==
  ASSUME MemoryInv, NEW state, UNCHANGED history,
         NEW h, Touches("reconciler", copy.version, heap, h),
         ObjectOK("reconciler", h, history, copy),
         Goes("status", SetCondition(h, "reconciler", copy, state))
  PROVE  HoldersStep /\ pc' \in {"idle", "list", "status"}
<1> DEFINE new == SetCondition(h, "reconciler", copy, state)
<1>1. /\ Touches("reconciler", copy.version, h, new.heap)
      /\ ObjectOK("reconciler", new.heap, history, new.obj)
  BY ConditionFacts
<1>2. Goes("status", new)
  OBVIOUS
<1> HIDE DEF new
<1>3. Touches("reconciler", copy.version, heap, new.heap)
  BY <1>1, TouchesTwice
<1>4. CopyOK("status", new.heap, history', new.obj) /\ Grown(history, history')
  BY <1>1, ServerFacts DEF CopyOK
<1> QED BY <1>2, <1>3, <1>4, ReconcilerStep

LEMMA GetStep ==
  ASSUME MemoryInv, Get
  PROVE  MemoryInv'
<1> DEFINE version == Len(history)
           new == Decode(heap, "reconciler", version, Server)
           set == SetCondition(new.heap, "reconciler", new.obj, "New")
<1>1. Goes("status", set) \/ Goes("list", new)
  BY DEF Get
<1>2. UNCHANGED <<history, wanted, newest>>
  BY DEF Get, Goes
<1>3. /\ version \in 0..Len(history) /\ version \in DOMAIN history
      /\ Server \in Object /\ Server = history[version]
      /\ Grown(history, history')
  BY <1>2, ServerFacts DEF Server
<1> HIDE DEF version
<1>4. /\ Touches("reconciler", version, heap, new.heap)
      /\ ObjectOK("reconciler", new.heap, history, new.obj)
      /\ Content(new.heap, new.obj) = Server
      /\ new.obj.version = version
  BY <1>3, DecodeFacts
<1> HIDE DEF new
<1>5. CASE Goes("list", new)
  <2>1. CopyOK("list", new.heap, history', new.obj)
    BY <1>2, <1>3, <1>4 DEF CopyOK
  <2>2. HoldersStep /\ pc' \in {"idle", "list", "status"}
    BY <1>3, <1>4, <1>5, <2>1, ReconcilerStep
  <2> QED BY <1>2, <2>2, NothingWritten, StepKeepsInv
<1>6. CASE Goes("status", set)
  <2>1. /\ Touches("reconciler", version, new.heap, set.heap)
        /\ ObjectOK("reconciler", set.heap, history, set.obj)
    BY <1>4, ConditionFacts
  <2> HIDE DEF set
  <2>2. Touches("reconciler", version, heap, set.heap)
    BY <1>4, <2>1, TouchesTwice
  <2>3. CopyOK("status", set.heap, history', set.obj)
    BY <1>2, <2>1 DEF CopyOK
  <2>4. HoldersStep /\ pc' \in {"idle", "list", "status"}
    BY <1>3, <1>6, <2>2, <2>3, ReconcilerStep
  <2> QED BY <1>2, <2>4, NothingWritten, StepKeepsInv
<1> QED BY <1>1, <1>5, <1>6

\* A copy that is current has the template that users wrote last.
LEMMA SetFinalizerStep ==
  ASSUME MemoryInv, SetFinalizer
  PROVE  MemoryInv'
<1> DEFINE sent == [copy EXCEPT !.fin = TRUE]
           object == Updated(heap, sent)
           next == Len(history) + 1
           new == Decode(heap, "reconciler", next, object)
<1>1. /\ CopyOK("list", heap, history, copy) /\ ObjectOK("reconciler", heap, history, copy)
      /\ newest' = newest
  BY HoldersFacts DEF SetFinalizer, CopyOK
<1>2. CASE CurrentVersion(copy)
  <2>1. Write(object) /\ Goes("list", new)
    BY <1>2 DEF SetFinalizer
  <2>2. object \in Object /\ object.labels = Server.labels
    <3>1. Content(heap, copy) \in Object /\ Content(heap, copy).labels = Server.labels
      BY <1>1, <1>2 DEF CopyOK, ObjectOK, CurrentVersion, Server
    <3>2. /\ sent.fin = TRUE /\ sent.labels = copy.labels /\ sent.conds = copy.conds
      BY <1>1 DEF ObjectOK
    <3> HIDE DEF sent
    <3>3. /\ Content(heap, sent).labels = Content(heap, copy).labels
          /\ Content(heap, sent).conds = Content(heap, copy).conds
          /\ Content(heap, sent) = [fin |-> TRUE, labels |-> Content(heap, copy).labels,
                                    conds |-> Content(heap, copy).conds]
      BY <3>2 DEF Content
    <3>4. Content(heap, sent) \in Object /\ Content(heap, sent).labels = Server.labels
      BY <3>1, <3>3 DEF Object
    <3> QED BY <3>4, ServerFacts DEF Updated, Object
  <2>3. wanted' = wanted
    BY <2>1 DEF Goes
  <2> HIDE DEF object
  <2>4. /\ HistoryStep /\ Len(history') = next /\ next \in DOMAIN history'
        /\ history'[next] = object
    BY <1>1, <2>1, <2>2, <2>3, OneWritten, ServerFacts
  <2>5. next \in 0..Len(history')
    BY <2>4, ServerFacts
  <2> HIDE DEF next
  <2>6. /\ Touches("reconciler", next, heap, new.heap)
        /\ ObjectOK("reconciler", new.heap, history', new.obj)
        /\ Content(new.heap, new.obj) = object
        /\ new.obj.version = next
    BY <2>2, <2>5, DecodeFacts
  <2> HIDE DEF new
  <2>7. CopyOK("list", new.heap, history', new.obj) /\ Grown(history, history')
    BY <2>4, <2>6 DEF CopyOK, HistoryStep
  <2>8. HoldersStep /\ pc' \in {"idle", "list", "status"}
    BY <2>1, <2>6, <2>7, ReconcilerStep
  <2> QED BY <2>4, <2>8, StepKeepsInv
<1>3. CASE ~CurrentVersion(copy)
  <2>1. UNCHANGED history /\ Fails /\ wanted' = wanted
    BY <1>3 DEF SetFinalizer, Fails, Goes
  <2>2. HoldersStep /\ pc' \in {"idle", "list", "status"}
    BY <1>1, <2>1, TouchesNothing, ConditionGoes DEF Fails
  <2> QED BY <1>1, <2>1, <2>2, NothingWritten, StepKeepsInv
<1> QED BY <1>2, <1>3

\* The hash is taken before the labels of the job get into the copy.
LEMMA CreateJobStep ==
  ASSUME MemoryInv, CreateJob
  PROVE  MemoryInv'
<1>1. /\ CopyOK("list", heap, history, copy) /\ ObjectOK("reconciler", heap, history, copy)
      /\ history' = history
  BY HoldersFacts DEF CreateJob, CopyOK
<1>2. /\ copy.version \in DOMAIN history /\ copy.version \in 0..MaxVersion
      /\ JobTemplateHash(heap, copy) = history[copy.version].labels
      /\ JobTemplateHash(heap, copy) \in SUBSET Labels
  BY <1>1, ServerFacts, MaxVersionAssumption
     DEF CopyOK, ObjectOK, Content, Object, JobTemplateHash
<1>3. PICK labels \in SUBSET Labels, state \in {"Processing", "Error"} :
        Goes("status", SetCondition(WithJobLabels(heap, copy, labels),
                                    "reconciler", copy, state))
  BY DEF CreateJob, Labels
<1>4. wanted' = wanted
  BY <1>3 DEF Goes
<1>5. newest' \in {newest, [labels  |-> JobTemplateHash(heap, copy),
                           version |-> copy.version]}
  BY DEF CreateJob
<1>6. HoldersStep /\ pc' \in {"idle", "list", "status"}
  BY <1>1, <1>3, JobLabelsFacts, ConditionGoes
<1>7. HistoryStep
  <2>1. CASE newest' = newest
    BY <1>1, <1>4, <2>1, NothingWritten
  <2>2. CASE newest' = [labels  |-> JobTemplateHash(heap, copy), version |-> copy.version]
    <3>1. /\ newest'.version \in DOMAIN history' /\ HashIsOfTheSpec'
          /\ newest' \in [labels : SUBSET Labels, version : 0..MaxVersion]
      BY <1>1, <1>2, <2>2 DEF HashIsOfTheSpec
    <3> QED BY <1>1, <1>4, <3>1, ServerFacts
            DEF HistoryStep, MemoryInv, MemoryTypeOK, VersionsOK, TemplateIsTheUsers,
                Server
  <2> QED BY <1>5, <2>1, <2>2
<1> QED BY <1>6, <1>7, StepKeepsInv

LEMMA ReportJobStep ==
  ASSUME MemoryInv, ReportJob
  PROVE  MemoryInv'
<1>1. PICK state \in Outcomes : Goes("status", SetCondition(heap, "reconciler", copy, state))
  BY DEF ReportJob
<1>2. UNCHANGED <<history, wanted, newest>> /\ ObjectOK("reconciler", heap, history, copy)
  BY <1>1, HoldersFacts DEF ReportJob, Goes, CopyOK
<1>3. HoldersStep /\ pc' \in {"idle", "list", "status"}
  BY <1>1, <1>2, TouchesNothing, ConditionGoes
<1> QED BY <1>2, <1>3, NothingWritten, StepKeepsInv

LEMMA UpdateStatusStep ==
  ASSUME MemoryInv, UpdateStatus
  PROVE  MemoryInv'
<1> DEFINE object == StatusUpdated(heap, copy)
           new == [heap |-> heap, obj |-> NoObject]
<1>1. Goes("idle", new) /\ newest' = newest
  BY DEF UpdateStatus
<1>2. wanted' = wanted
  BY <1>1 DEF Goes
<1>3. object \in Object /\ object.labels = Server.labels
  BY HoldersFacts, StatusUpdatedFacts DEF CopyOK, ObjectOK
<1>4. Write(object) \/ UNCHANGED history
  BY DEF UpdateStatus
<1> HIDE DEF object
<1>5. HistoryStep
  <2>1. CASE Write(object)
    BY <1>1, <1>2, <1>3, <2>1, ServerFacts, OneWritten
  <2>2. CASE UNCHANGED history
    BY <1>1, <1>2, <2>2, NothingWritten
  <2> QED BY <1>4, <2>1, <2>2
<1>6. CopyOK("idle", heap, history', NoObject) /\ Grown(history, history')
  BY <1>5, NoObjectFacts DEF HistoryStep, Grown, CopyOK
<1>7. new.heap = heap /\ new.obj = NoObject
  OBVIOUS
<1> HIDE DEF new
<1>8. HoldersStep /\ pc' \in {"idle", "list", "status"}
  <2>1. Touches("reconciler", 0, heap, new.heap)
    BY <1>7, TouchesNothing
  <2> QED BY <1>1, <1>6, <1>7, <2>1, ReconcilerStep
<1> QED BY <1>5, <1>8, StepKeepsInv

-----------------------------------------------------------------------------
(* The invariant *)

\* Every initial state satisfies the invariant.
LEMMA MemoryInvInit == MemoryInit => MemoryInv
<1> SUFFICES ASSUME MemoryInit PROVE MemoryInv
  OBVIOUS
<1>1. PICK labels \in SUBSET UserLabels, status \in Conditions, new \in BOOLEAN, fin \in BOOLEAN :
        /\ history = <<[labels |-> labels, fin |-> fin /\ ~new,
                        conds |-> IF new THEN {} ELSE {status}]>>
        /\ wanted = labels
  BY DEF MemoryInit
<1> DEFINE object == [labels |-> labels, fin |-> fin /\ ~new,
                      conds |-> IF new THEN {} ELSE {status}]
<1>2. object \in Object /\ object.labels = labels
  BY DEF Object, Labels, Statuses
<1>3. history = <<object>> /\ wanted = labels
  BY <1>1
<1> HIDE DEF object
<1>4. /\ history \in Seq(Object) /\ Len(history) = 1 /\ DOMAIN history = {1}
      /\ history[1] = object
  BY <1>2, <1>3
<1>5. /\ cache = NoObject /\ copy = NoObject /\ newest = NoHash /\ pc = "idle"
      /\ heap = <<>>
      /\ listed = [c \in Clients |-> NoObject] /\ mine = [c \in Clients |-> NoObject]
  BY DEF MemoryInit
<1>6. VersionsOK
  BY <1>2, <1>3, <1>4, <1>5 DEF VersionsOK, TemplateIsTheUsers, Server, HashIsOfTheSpec
<1>7. \A who : ObjectOK(who, heap, history, NoObject)
  BY <1>4, NoObjectFacts
<1>8. HeldOK(heap, history, cache, listed, mine, pc, copy)
  <2>1. NoObject.version <= NoObject.version
    BY DEF NoObject
  <2>2. CachedOK(heap, history, NoObject)
    BY <1>7 DEF CachedOK
  <2>3. \A c \in Clients : MineOK(c, heap, history, NoObject)
    BY <1>7 DEF MineOK
  <2>4. CopyOK(pc, heap, history, NoObject)
    BY <1>5, <1>7 DEF CopyOK
  <2> QED BY <1>5, <2>1, <2>2, <2>3, <2>4 DEF HeldOK
<1>9. MemoryTypeOK
  <2>1. DOMAIN heap = {} /\ Nil \notin DOMAIN heap
    BY <1>5
  <2>2. Held \subseteq {NoObject}
    BY <1>5 DEF Held, Range
  <2>3. Reachable = {}
    BY <2>2 DEF Reachable, NoObject
  <2>4. NoObject \in Pointers
    BY MaxVersionAssumption DEF NoObject, Pointers
  <2>5. newest \in [labels : SUBSET Labels, version : 0..MaxVersion]
    BY <1>5, MaxVersionAssumption DEF NoHash
  <2>6. Len(history) \in 1..MaxVersion
    BY <1>4, MaxVersionAssumption
  <2>7. wanted \in SUBSET UserLabels
    BY <1>1
  <2>8. listed \in [Clients -> Pointers] /\ mine \in [Clients -> Pointers]
    BY <1>5, <2>4
  <2> QED BY <1>4, <1>5, <2>1, <2>3, <2>4, <2>5, <2>6, <2>7, <2>8 DEF MemoryTypeOK
<1> QED BY <1>6, <1>8, <1>9 DEF MemoryInv

LEMMA MemoryInvUnchanged ==
  ASSUME MemoryInv, UNCHANGED memoryVars
  PROVE  MemoryInv'
<1>1. UNCHANGED <<history, wanted, heap, cache, listed, mine, copy, pc, newest>>
  BY DEF memoryVars, clientVars, reconcilerVars
<1>2. HistoryStep
  BY <1>1, NothingWritten
<1>3. HoldersStep
  BY <1>1, HoldersFacts
     DEF HoldersStep, IsFunctionOfClients, MemoryInv, MemoryTypeOK, Reachable, Held
<1> QED BY <1>1, <1>2, <1>3, StepKeepsInv, HoldersFacts

\* Every step keeps it, whoever takes it.
LEMMA MemoryInvNext == MemoryInv /\ [MemoryNext]_memoryVars => MemoryInv'
<1> SUFFICES ASSUME MemoryInv, [MemoryNext]_memoryVars PROVE MemoryInv'
  OBVIOUS
<1>1. CASE UserWrites
  BY <1>1, UserWritesStep
<1>2. CASE Informer
  BY <1>2, InformerStep
<1>3. ASSUME NEW c \in Clients, Client(c)
      PROVE  MemoryInv'
  BY <1>3, ListerGetsStep, ClientCopiesStep, ClientGetsStep, ClientLabelsStep,
     ClientSetsStateStep, ClientUpdatesStep, ClientUpdatesStatusStep DEF Client
<1>4. CASE Reconciler
  BY <1>4, GetStep, SetFinalizerStep, CreateJobStep, ReportJobStep, UpdateStatusStep
     DEF Reconciler
<1>5. CASE UNCHANGED memoryVars
  BY <1>5, MemoryInvUnchanged
<1> QED BY <1>1, <1>2, <1>3, <1>4, <1>5 DEF MemoryNext

\* The invariant behind the properties of the module: nobody writes memory that
\* somebody else made, whatever the reconciler, the informer and the clients do.
THEOREM MemoryInvariance == MemorySpec => []MemoryInv
BY MemoryInvInit, MemoryInvNext, PTL DEF MemorySpec

\* All maps and slices are where somebody can reach them, and nothing dangles.
THEOREM MemoryTypeCorrectness == MemorySpec => []MemoryTypeOK
<1>1. MemoryInv => MemoryTypeOK
  BY DEF MemoryInv
<1> QED BY <1>1, MemoryInvariance, PTL

\* No label the operator or the server gives to a job gets into the template.
THEOREM TemplateSafety == MemorySpec => []TemplateIsTheUsers
<1>1. MemoryInv => TemplateIsTheUsers
  BY DEF MemoryInv, VersionsOK
<1> QED BY <1>1, MemoryInvariance, PTL

\* The hash annotation of the newest job is that of a template the server had.
THEOREM HashSafety == MemorySpec => []HashIsOfTheSpec
<1>1. MemoryInv => HashIsOfTheSpec
  BY DEF MemoryInv, VersionsOK
<1> QED BY <1>1, MemoryInvariance, PTL

\* What is in the cache, and what the lister returned, is what the server had.
THEOREM CacheSafety == MemorySpec => []CacheIsFaithful
<1>1. MemoryInv => CacheIsFaithful
  <2> SUFFICES ASSUME MemoryInv PROVE CacheIsFaithful
    OBVIOUS
  <2>1. \A c \in Clients : CachedOK(heap, history, listed[c])
    BY HoldersFacts
  <2>2. \A obj \in Range(listed) : CachedOK(heap, history, obj)
    BY <2>1, HoldersFacts DEF Range, IsFunctionOfClients
  <2> QED BY <2>2, HoldersFacts DEF CachedOK, CacheIsFaithful
<1> QED BY <1>1, MemoryInvariance, PTL

\* However old an object in the cache is, no label is lost to a client that
\* copies it, adds to it and sends it back.
THEOREM OnlyUsersTakeAwayHolds == MemorySpec => OnlyUsersTakeAway
<1>1. MemoryInv /\ [MemoryNext]_memoryVars => [wanted \subseteq wanted' \/ UserWrites]_memoryVars
  <2> SUFFICES ASSUME MemoryInv, MemoryNext PROVE wanted \subseteq wanted' \/ UserWrites
    OBVIOUS
  <2>1. CASE Informer
    BY <2>1 DEF Informer, InformerKeeps
  <2>2. ASSUME NEW c \in Clients, Client(c)
        PROVE  wanted \subseteq wanted'
    <3>1. CASE ClientUpdates(c)
      BY <3>1, ClientUpdatesFacts
    <3>2. CASE ~ClientUpdates(c)
      BY <2>2, <3>2
         DEF Client, ListerGets, ClientCopies, ClientGets, ClientLabels, ClientSetsState,
             ClientUpdatesStatus, Works
    <3> QED BY <3>1, <3>2
  <2>3. CASE Reconciler
    BY <2>3
       DEF Reconciler, Get, SetFinalizer, CreateJob, ReportJob, UpdateStatus, Goes, Fails
  <2> QED BY <2>1, <2>2, <2>3 DEF MemoryNext
<1> QED BY <1>1, MemoryInvariance, PTL DEF MemorySpec, OnlyUsersTakeAway

=============================================================================
