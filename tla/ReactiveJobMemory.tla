------------------------- MODULE ReactiveJobMemory -------------------------
(***************************************************************************)
(* Who shares which memory. In Go a ReactiveJob is a struct with pointers  *)
(* to maps and slices: assigning the struct shares them, and several steps *)
(* of this code write them in place. The module has the heap, and those    *)
(* who hold objects on it: the reconciler, whose new job shares its maps   *)
(* with the copy of the ReactiveJob it goes on to write to the server; and *)
(* the users of pkg/client, who get pointers into the informer's cache from*)
(* the lister, copy them with the generated DeepCopy, and write the copies *)
(* with the typed client.                                                  *)
(*                                                                         *)
(* One ReactiveJob that nobody deletes. Its template is one map, the labels*)
(* of the job template; annotations and the maps inside the pod template   *)
(* are shared in the same way. Its status is the slice of conditions.      *)
(***************************************************************************)
EXTENDS ReactiveJobTypes, Sequences, Functions

CONSTANTS
  Clients,      \* goroutines that use one informer and one clientset
  UserLabels,   \* the labels users put in a template
  Outcomes,     \* states a job can bring the ReactiveJob to in this instance
  MaxVersion    \* bound: versions of the object

\* The names of the other two who allocate.
ASSUME ClientsAssumption == Clients \cap {"cache", "reconciler"} = {}

ASSUME MaxVersionAssumption == MaxVersion \in Nat \ {0}

ASSUME OutcomesAssumption == Outcomes \subseteq {"Processing", "Error", "Ready"}

VARIABLES
  history,   \* history[v]: version v of the object in the API server
  wanted,    \* the labels of the template as users last wrote them
  heap,      \* heap[a]: the map or slice at address a
  cache,     \* the object in the informer's cache
  listed,    \* listed[c]: the object the lister last returned to c
  mine,      \* mine[c]: the copy c works on
  copy,      \* the copy of the reconciler
  pc,        \* the call the reconciler makes next
  newest     \* the hash annotation of the newest job, and of which version it is

clientVars == <<cache, listed, mine>>
reconcilerVars == <<copy, pc, newest>>
memoryVars == <<history, wanted, heap, clientVars, reconcilerVars>>

\* What the operator and the API server add to the labels of a job.
Labels == UserLabels \cup {"operator", "server"}
Conditions == {"True", "False", "Unknown"}

\* There is one type of condition, so at most one condition.
Statuses == {{}} \cup {{status} : status \in Conditions}

NoHash == [labels |-> {}, version |-> 0]

Server == history[Len(history)]

-----------------------------------------------------------------------------
(* Objects on the heap *)

\* An address is named after who allocated it, for which version and which field:
\* nobody allocates it again while somebody has it.
Address(who, version, field) == <<who, version, field>>
Nil == <<>>
NoObject == [version |-> 0, fin |-> FALSE, labels |-> Nil, conds |-> Nil]

At(h, address) == IF address = Nil THEN {} ELSE h[address]

\* What becomes of obj when it is written down.
Content(h, obj) ==
  [fin |-> obj.fin, labels |-> At(h, obj.labels), conds |-> At(h, obj.conds)]

\* The heap with a map or slice at a new address; an empty one is nil.
New(h, address, content) ==
  IF content = {} THEN [heap |-> h, at |-> Nil]
                  ELSE [heap |-> [a \in DOMAIN h \cup {address} |->
                                    IF a = address THEN content ELSE h[a]],
                        at   |-> address]

\* Decoding a version of the object makes everything anew.
Decode(h, who, version, object) ==
  LET labels == New(h, Address(who, version, "labels"), object.labels)
      conds  == New(labels.heap, Address(who, version, "conds"), object.conds)
  IN  [heap |-> conds.heap,
       obj  |-> [version |-> version, fin |-> object.fin,
                 labels |-> labels.at, conds |-> conds.at]]

\* Mutant: *out = *in, and no more.
ShallowCopy(h, who, in) == [heap |-> h, obj |-> in]

DeepCopy(h, who, in) == Decode(h, who, in.version, Content(h, in))

\* Mutant: the Ready condition is looked for under another type.
AppendCondition(h, who, obj, state) ==
  LET conds == New(h, Address(who, obj.version, "conds"),
                   At(h, obj.conds) \cup {ReadyCondition(state)})
  IN  [heap |-> conds.heap, obj |-> [obj EXCEPT !.conds = conds.at]]

\* The map of the template gets one more label; a nil map is made first.
AddLabel(h, who, obj, label) ==
  LET labels == New(h, IF obj.labels = Nil THEN Address(who, obj.version, "labels")
                                           ELSE obj.labels,
                    At(h, obj.labels) \cup {label})
  IN  [heap |-> labels.heap, obj |-> [obj EXCEPT !.labels = labels.at]]

\* The one condition is overwritten where it is, or appended if there is none.
SetCondition(h, who, obj, state) ==
  LET conds == New(h, IF obj.conds = Nil THEN Address(who, obj.version, "conds")
                                         ELSE obj.conds, {ReadyCondition(state)})
  IN  [heap |-> conds.heap, obj |-> [obj EXCEPT !.conds = conds.at]]

Held == {cache, copy} \cup Range(listed) \cup Range(mine)

Reachable == (UNION {{obj.labels, obj.conds} : obj \in Held}) \ {Nil}

\* The heap is h from now on, but for what nobody can reach any more.
Store(h) == heap' = Restrict(h, Reachable')

-----------------------------------------------------------------------------
(* The API server *)

Object == [fin : BOOLEAN, labels : SUBSET Labels, conds : Statuses]

Pointers == [version : 0..MaxVersion, fin : BOOLEAN,
             labels : DOMAIN heap \cup {Nil}, conds : DOMAIN heap \cup {Nil}]

MemoryTypeOK ==
  /\ history \in Seq(Object)
  /\ Len(history) \in 1..MaxVersion
  /\ wanted \in SUBSET UserLabels
  /\ {cache, copy} \subseteq Pointers
  /\ listed \in [Clients -> Pointers] /\ mine \in [Clients -> Pointers]
  /\ DOMAIN heap = Reachable
  /\ pc \in {"idle", "list", "status"}
  /\ newest \in [labels : SUBSET Labels, version : 0..MaxVersion]

\* The object is new, or was reconciled before; if it has a job, that was made
\* by another process, and its hash is one nobody here knows.
MemoryInit ==
  /\ \E labels \in SUBSET UserLabels, status \in Conditions, new \in BOOLEAN, fin \in BOOLEAN :
       /\ history = <<[labels |-> labels, fin |-> fin /\ ~new,
                      conds |-> IF new THEN {} ELSE {status}]>>
       /\ wanted = labels
  /\ heap = <<>>
  /\ cache = NoObject
  /\ listed = [c \in Clients |-> NoObject]
  /\ mine = [c \in Clients |-> NoObject]
  /\ copy = NoObject
  /\ pc = "idle"
  /\ newest = NoHash

Write(object) ==
  /\ Len(history) < MaxVersion
  /\ history' = Append(history, object)

\* Mutant: updates carry no version.
AnyVersion(obj) == TRUE

CurrentVersion(obj) == obj.version = Len(history)

\* An update takes over everything but the status.
Updated(h, obj) == [Content(h, obj) EXCEPT !.conds = Server.conds]

\* Mutant: the status is not a subresource, and is updated with the rest.
StatusAndSpecUpdated(h, obj) == Content(h, obj)

\* An update of the status takes over nothing else.
StatusUpdated(h, obj) == [Server EXCEPT !.conds = Content(h, obj).conds]

\* A user with an editor, or another program.
UserWrites ==
  /\ \E labels \in (SUBSET UserLabels) \ {Server.labels} :
       /\ Write([Server EXCEPT !.labels = labels])
       /\ wanted' = labels
  /\ UNCHANGED <<heap, clientVars, reconcilerVars>>

-----------------------------------------------------------------------------
(* The informer and its lister *)

InformerKeeps(version) ==
  LET new == Decode(heap, "cache", version, history[version])
  IN  /\ cache' = new.obj
      /\ UNCHANGED <<history, wanted, listed, mine, reconcilerVars>>
      /\ Store(new.heap)

\* The list is at least as new as what the informer has seen, and the watch goes
\* on with the version after that.
Informer == \E version \in cache.version + 1..Len(history) : InformerKeeps(version)

\* "All objects returned here must be treated as read-only": the pointers are
\* those of the cache.
ListerGets(c) ==
  /\ cache # NoObject
  /\ listed' = [listed EXCEPT ![c] = cache]
  /\ UNCHANGED <<history, wanted, cache, mine, reconcilerVars>>
  /\ Store(heap)

-----------------------------------------------------------------------------
(* A user of the client *)

\* c has another object, or other contents of it, and is all that changes.
Works(c, new) ==
  /\ mine' = [mine EXCEPT ![c] = new.obj]
  /\ UNCHANGED <<history, wanted, cache, listed, reconcilerVars>>
  /\ Store(new.heap)

ClientCopies(c) ==
  /\ listed[c] # NoObject
  /\ Works(c, DeepCopy(heap, c, listed[c]))

ClientGets(c) == Works(c, Decode(heap, c, Len(history), Server))

\* Clients of this instance add labels to the template.
ClientLabels(c) ==
  /\ mine[c] # NoObject
  /\ \E label \in UserLabels : Works(c, AddLabel(heap, c, mine[c], label))

\* SetState is exported.
ClientSetsState(c) ==
  /\ mine[c] # NoObject
  /\ \E state \in Outcomes : Works(c, SetCondition(heap, c, mine[c], state))

\* The typed client returns what the server stored as a new object. A
\* conflict changes nothing.
Answer(c, object) ==
  LET new == Decode(heap, c, Len(history) + 1, object)
  IN  /\ Write(object)
      /\ mine' = [mine EXCEPT ![c] = new.obj]
      /\ UNCHANGED <<cache, listed, reconcilerVars>>
      /\ Store(new.heap)

ClientUpdates(c) ==
  /\ mine[c] # NoObject
  /\ CurrentVersion(mine[c])
  /\ wanted' = Content(heap, mine[c]).labels
  /\ Answer(c, Updated(heap, mine[c]))

ClientUpdatesStatus(c) ==
  /\ mine[c] # NoObject
  /\ CurrentVersion(mine[c])
  /\ Answer(c, StatusUpdated(heap, mine[c]))
  /\ UNCHANGED wanted

Client(c) ==
  \/ ListerGets(c)
  \/ ClientCopies(c)
  \/ ClientGets(c)
  \/ ClientLabels(c)
  \/ ClientSetsState(c)
  \/ ClientUpdates(c)
  \/ ClientUpdatesStatus(c)

-----------------------------------------------------------------------------
(* The reconciler *)

\* The reconciler goes on to call next, with the copy and heap of new.
Goes(next, new) ==
  /\ pc' = next
  /\ copy' = new.obj
  /\ UNCHANGED <<wanted, clientVars>>
  /\ Store(new.heap)

\* Caches are off for ReactiveJobs, so Get decodes an answer of the server.
Get ==
  /\ pc = "idle"
  /\ LET new == Decode(heap, "reconciler", Len(history), Server)
     IN  IF Server.conds = {}
         THEN Goes("status", SetCondition(new.heap, "reconciler", new.obj, "New"))
         ELSE Goes("list", new)
  /\ UNCHANGED <<history, newest>>

\* A call failed: the deferred function records it in the copy.
Fails == Goes("status", SetCondition(heap, "reconciler", copy, "Error"))

\* The update sends the whole copy, before a job shares it; the answer replaces it.
SetFinalizer ==
  /\ pc = "list"
  /\ ~copy.fin
  /\ LET object == Updated(heap, [copy EXCEPT !.fin = TRUE])
         new    == Decode(heap, "reconciler", Len(history) + 1, object)
     IN  IF CurrentVersion(copy)
         THEN Write(object) /\ Goes("list", new)
         ELSE UNCHANGED history /\ Fails
  /\ UNCHANGED newest

\* The metadata of the job is that of the template in the copy: the labels of
\* the operator end up in both, unless the map was nil.
WithJobLabels(h, obj, labels) ==
  IF obj.labels = Nil THEN h ELSE [h EXCEPT ![obj.labels] = @ \cup labels]

\* Mutant: the hash is computed after the job was made.
HashOfJob(h, obj) == At(WithJobLabels(h, obj, {"operator"}), obj.labels)

JobTemplateHash(h, obj) == At(h, obj.labels)

\* The answer is decoded into the job, and so, if the decoder writes into maps
\* that are there, into the copy. Without an answer the job may have been made.
CreateJob ==
  /\ pc = "list"
  /\ copy.fin
  /\ newest = NoHash \/ newest.labels # JobTemplateHash(heap, copy)
  /\ LET made == [labels  |-> JobTemplateHash(heap, copy), version |-> copy.version]
     IN  \/ /\ \E answer \in SUBSET {"server"} :
                  LET labelled == WithJobLabels(heap, copy, {"operator"} \cup answer)
                  IN  Goes("status", SetCondition(labelled, "reconciler", copy, "Processing"))
            /\ newest' = made
         \/ /\ LET labelled == WithJobLabels(heap, copy, {"operator"})
               IN  Goes("status", SetCondition(labelled, "reconciler", copy, "Error"))
            /\ newest' \in {newest, made}
  /\ UNCHANGED history

ReportJob ==
  /\ pc = "list"
  /\ copy.fin
  /\ newest # NoHash
  /\ newest.labels = JobTemplateHash(heap, copy)
  /\ \E state \in Outcomes :
       Goes("status", SetCondition(heap, "reconciler", copy, state))
  /\ UNCHANGED <<history, newest>>

\* The labels that got into the copy are sent, too. Without a change, time
\* stamps decide whether there is a new version.
UpdateStatus ==
  /\ pc = "status"
  /\ LET object == StatusUpdated(heap, copy)
     IN  \/ CurrentVersion(copy) /\ Write(object)
         \/ (~CurrentVersion(copy) \/ object = Server) /\ UNCHANGED history
  /\ Goes("idle", [heap |-> heap, obj |-> NoObject])
  /\ UNCHANGED newest

Reconciler == Get \/ SetFinalizer \/ CreateJob \/ ReportJob \/ UpdateStatus

MemoryNext ==
  \/ UserWrites
  \/ Informer
  \/ \E c \in Clients : Client(c)
  \/ Reconciler

MemorySpec == MemoryInit /\ [][MemoryNext]_memoryVars

-----------------------------------------------------------------------------
(* Properties *)

\* The template in the server is the one users wrote last. Neither do labels the
\* operator or the server give to a job find their way into it, although the
\* reconciler sends a copy that has them, nor does the operator's update of the
\* finalizer bring back an older template.
TemplateIsTheUsers == Server.labels = wanted

\* The hash annotation of a job is that of a template as it is in the server,
\* although the job shares the maps that are hashed; otherwise the next
\* reconciliation would find another hash and run the template again.
HashIsOfTheSpec == newest # NoHash => newest.labels = history[newest.version].labels

\* An object in the cache, and one that the lister returned, is what the server
\* had under its version: no copy that somebody works on shares memory with it.
CacheIsFaithful ==
  \A obj \in {cache} \cup Range(listed) :
    obj # NoObject => Content(heap, obj) = history[obj.version]

\* What a client writes is built on what is there: clients of this instance only
\* add labels, so only somebody with an editor takes one away, however old the
\* object in the cache was that the client copied.
OnlyUsersTakeAway == [][wanted \subseteq wanted' \/ UserWrites]_memoryVars

-----------------------------------------------------------------------------
(* Why *)

\* The memory of obj is there, and who made it; nobody else writes it.
ObjectOK(who, h, versions, obj) ==
  /\ obj \in [version : 0..Len(versions), fin : BOOLEAN,
             labels : DOMAIN h \cup {Nil}, conds : DOMAIN h \cup {Nil}]
  /\ obj.labels \in {Nil, Address(who, obj.version, "labels")}
  /\ obj.conds \in {Nil, Address(who, obj.version, "conds")}
  /\ Content(h, obj) \in Object

\* In the cache: never written after it was decoded.
CachedOK(h, versions, obj) ==
  /\ ObjectOK("cache", h, versions, obj)
  /\ obj # NoObject => /\ obj.version \in DOMAIN versions
                       /\ Content(h, obj) = versions[obj.version]

\* In the hands of a client: has what it was copied from, and more of the same.
MineOK(c, h, versions, obj) ==
  /\ ObjectOK(c, h, versions, obj)
  /\ obj # NoObject => /\ obj.version \in DOMAIN versions
                       /\ versions[obj.version].labels \subseteq Content(h, obj).labels
                       /\ Content(h, obj).labels \subseteq UserLabels

\* In the hands of the reconciler, which goes on to call next: as it was read, until
\* a job shares it.
CopyOK(next, h, versions, obj) ==
  /\ ObjectOK("reconciler", h, versions, obj)
  /\ next = "list" => /\ obj.version \in DOMAIN versions
                      /\ Content(h, obj).labels = versions[obj.version].labels

HeldOK(h, versions, cached, lists, copies, next, read) ==
  /\ CachedOK(h, versions, cached)
  /\ \A c \in Clients : /\ CachedOK(h, versions, lists[c])
                        /\ lists[c].version <= cached.version
                        /\ MineOK(c, h, versions, copies[c])
  /\ CopyOK(next, h, versions, read)

\* What the server has, from users and of users.
VersionsOK ==
  /\ \A v \in DOMAIN history : history[v].labels \subseteq UserLabels
  /\ TemplateIsTheUsers
  /\ newest # NoHash => newest.version \in DOMAIN history
  /\ HashIsOfTheSpec

\* The inductive invariant behind TemplateIsTheUsers, HashIsOfTheSpec,
\* CacheIsFaithful and OnlyUsersTakeAway: nobody writes memory that somebody else
\* made, so everybody knows which version, or what made of it, they have.
MemoryInv ==
  /\ MemoryTypeOK
  /\ VersionsOK
  /\ HeldOK(heap, history, cache, listed, mine, pc, copy)
=============================================================================
