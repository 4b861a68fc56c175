-------------------------------- MODULE IDMap --------------------------------
(***************************************************************************)
(* ptvsd/wrapper.py, class IDMap: the two dictionaries that give every     *)
(* pydevd entity (thread, frame, variable) an integer VSCode id.           *)
(*                                                                         *)
(* add, remove, pairs, pydevd_ids and vscode_ids hold self._lock, but      *)
(* to_pydevd and the look-up of to_vscode do not take it: they run between *)
(* the two assignments of add and between the two dels of remove, which    *)
(* are therefore steps of their own.  to_vscode(p, autogen=True) that      *)
(* misses calls add in a later step.                                       *)
(*                                                                         *)
(* The users are those of the wrapper: any thread looks up and adds; one   *)
(* thread, the pydevd writer, removes (on_pydevd_thread_run takes a        *)
(* snapshot with pairs and removes entry by entry, on_pydevd_thread_kill   *)
(* looks one entity up and removes it).                                    *)
(***************************************************************************)
EXTENDS Naturals, FiniteSets, Functions

CONSTANTS
  Thread,      \* the threads that use the map
  Remover,     \* the one that removes: the pydevd writer thread
  Entity,      \* pydevd ids
  NoEntity,
  NoThread,
  MaxId        \* bound: at most MaxId ids are given out

ASSUME RemoverAssumption == Remover \in Thread
ASSUME EntityAssumption == NoEntity \notin Entity
ASSUME ThreadAssumption == NoThread \notin Thread
ASSUME MaxIdAssumption == MaxId \in Nat

VARIABLES
  toPydevd,    \* self._vscode_to_pydevd
  toVscode,    \* self._pydevd_to_vscode
  nextId,      \* self._next_id
  missed,      \* Thread -> the entity to_vscode has not found and will add
  doomed,      \* pairs the remover has read and will remove, <<entity, id>>
  adding,      \* the thread in add between its two assignments, holding _lock
  removing,    \* the pair remove has taken out of toPydevd only, holding _lock
  given,       \* history: every <<entity, id>> that add has made
  contended,   \* history: entities added while another to_vscode had missed them
  raised       \* history: some remove has raised KeyError

mapVars == <<toPydevd, toVscode, nextId, missed, doomed, adding, removing,
             given, contended, raised>>

Id == 1..MaxId

\* d is a dictionary with keys in K and values in V
IsDict(d, K, V) == DOMAIN d \subseteq K /\ d \in [DOMAIN d -> V]

\* the dictionary d after d[k] = v, and after del d[k]
Put(d, k, v) == [x \in DOMAIN d \cup {k} |-> IF x = k THEN v ELSE d[x]]
Del(d, k) == Restrict(d, DOMAIN d \ {k})

MapInit ==
  /\ toPydevd = [v \in {} |-> NoEntity]
  /\ toVscode = [p \in {} |-> 0]
  /\ nextId = 1
  /\ missed = [t \in Thread |-> NoEntity]
  /\ doomed = {}
  /\ adding = NoThread
  /\ removing = {}
  /\ given = {}
  /\ contended = {}
  /\ raised = FALSE

Free(t) == missed[t] = NoEntity /\ (t = Remover => doomed \cup removing = {})

LockFree == adding = NoThread /\ removing = {}

-----------------------------------------------------------------------------
\* to_vscode(p, autogen=True), which holds no lock: the look-up misses; one that
\* hits changes nothing.
\* mutant: autogen adds without having looked
MissAlways(t, p) ==
  /\ Free(t)
  /\ missed' = [missed EXCEPT ![t] = p]
  /\ UNCHANGED <<toPydevd, toVscode, nextId, doomed, adding, removing,
                 given, contended, raised>>

Miss(t, p) ==
  /\ Free(t)
  /\ p \notin DOMAIN toVscode
  /\ missed' = [missed EXCEPT ![t] = p]
  /\ UNCHANGED <<toPydevd, toVscode, nextId, doomed, adding, removing,
                 given, contended, raised>>

\* ... and then self.add(p), which looks no more: the map may have gained p since.
\* add takes the lock, counts and makes the forward entry,
\* mutant: the id is the size of the map, not a counter
AddBySize(t) ==
  LET p == missed[t]  v == Cardinality(DOMAIN toVscode) + 1 IN
  /\ p # NoEntity
  /\ LockFree
  /\ nextId <= MaxId
  /\ nextId' = nextId + 1
  /\ toPydevd' = Put(toPydevd, v, p)
  /\ given' = given \cup {<<p, v>>}
  /\ adding' = t
  /\ UNCHANGED <<toVscode, missed, doomed, removing, contended, raised>>

AddForward(t) ==
  LET p == missed[t] IN
  /\ p # NoEntity
  /\ LockFree
  /\ nextId <= MaxId
  /\ nextId' = nextId + 1
  /\ toPydevd' = Put(toPydevd, nextId, p)
  /\ given' = given \cup {<<p, nextId>>}
  /\ adding' = t
  /\ UNCHANGED <<toVscode, missed, doomed, removing, contended, raised>>

\* then the reverse entry, and releases the lock.
\* mutant: the reverse entry is made of the counter, which has moved on
AddReverseLate ==
  /\ adding # NoThread
  /\ toVscode' = Put(toVscode, missed[adding], nextId)
  /\ missed' = [missed EXCEPT ![adding] = NoEntity]
  /\ adding' = NoThread
  /\ UNCHANGED <<toPydevd, nextId, doomed, removing, given, contended, raised>>

AddReverse ==
  LET p == missed[adding] IN
  /\ adding # NoThread
  /\ toVscode' = Put(toVscode, p, nextId - 1)
  /\ missed' = [missed EXCEPT ![adding] = NoEntity]
  /\ adding' = NoThread
  /\ contended' = IF \E u \in Thread \ {adding} : missed[u] = p
                  THEN contended \cup {p} ELSE contended
  /\ UNCHANGED <<toPydevd, nextId, doomed, removing, given, raised>>

-----------------------------------------------------------------------------
\* pairs(): the remover reads, under the lock, the pairs of the entities it will
\* remove (the frames or the variables of a thread).
\* mutant: pairs() built from the other dictionary
SnapshotForward(S) ==
  /\ Free(Remover)
  /\ LockFree
  /\ doomed' = {<<toPydevd[v], v>> : v \in {w \in DOMAIN toPydevd : toPydevd[w] \in S}}
  /\ UNCHANGED <<toPydevd, toVscode, nextId, missed, adding, removing,
                 given, contended, raised>>

Snapshot(S) ==
  /\ Free(Remover)
  /\ LockFree
  /\ doomed' = {<<p, toVscode[p]>> : p \in S \cap DOMAIN toVscode}
  /\ UNCHANGED <<toPydevd, toVscode, nextId, missed, adding, removing,
                 given, contended, raised>>

\* to_vscode(p, autogen=False) of on_pydevd_thread_kill, without the lock.
LookUpOne(p) ==
  /\ Free(Remover)
  /\ p \in DOMAIN toVscode
  /\ doomed' = {<<p, toVscode[p]>>}
  /\ UNCHANGED <<toPydevd, toVscode, nextId, missed, adding, removing,
                 given, contended, raised>>

\* remove(p, v) takes the lock and deletes the forward entry; a KeyError would
\* leave the lock section, and with it the loop over the snapshot.
RemoveForward(pair) ==
  /\ pair \in doomed
  /\ LockFree
  /\ IF pair[2] \in DOMAIN toPydevd
     THEN /\ toPydevd' = Del(toPydevd, pair[2])
          /\ doomed' = doomed \ {pair}
          /\ removing' = {pair}
          /\ UNCHANGED raised
     ELSE /\ doomed' = {}
          /\ raised' = TRUE
          /\ UNCHANGED <<toPydevd, removing>>
  /\ UNCHANGED <<toVscode, nextId, missed, adding, given, contended>>

\* then the reverse entry, and releases the lock.
\* mutant: the reverse entry is forgotten
ReverseForgotten(pair) ==
  /\ pair \in removing
  /\ removing' = {}
  /\ UNCHANGED <<toPydevd, toVscode, nextId, missed, doomed, adding, given, contended, raised>>

RemoveReverse(pair) ==
  /\ pair \in removing
  /\ removing' = {}
  /\ toVscode' = Del(toVscode, pair[1])
  /\ raised' = (raised \/ pair[1] \notin DOMAIN toVscode)
  /\ doomed' = IF raised' THEN {} ELSE doomed
  /\ UNCHANGED <<toPydevd, nextId, missed, adding, given, contended>>

-----------------------------------------------------------------------------
MapNext ==
  \/ \E t \in Thread : (\E p \in Entity : Miss(t, p)) \/ AddForward(t)
  \/ AddReverse
  \/ \E S \in SUBSET Entity : Snapshot(S)
  \/ \E p \in Entity : LookUpOne(p)
  \/ \E pair \in doomed : RemoveForward(pair)
  \/ \E pair \in removing : RemoveReverse(pair)

MapSpec == MapInit /\ [][MapNext]_mapVars

-----------------------------------------------------------------------------
MapTypeOK ==
  /\ IsDict(toPydevd, Id, Entity)
  /\ IsDict(toVscode, Entity, Id)
  /\ nextId \in 1..(MaxId + 1)
  /\ missed \in [Thread -> Entity \cup {NoEntity}]
  /\ doomed \in SUBSET (Entity \X Id)
  /\ adding \in {NoThread} \cup {t \in Thread : missed[t] # NoEntity /\ nextId > 1}
  /\ removing \in SUBSET (Entity \X Id)
  /\ given \in SUBSET (Entity \X Id)
  /\ contended \in SUBSET Entity
  /\ raised \in BOOLEAN

\* An id never comes to denote another entity: the client may hold an id for as
\* long as it likes and can at worst be told that it is unknown.
NeverReassigned ==
  /\ \A g, h \in given : g[2] = h[2] => g = h
  /\ \A v \in DOMAIN toPydevd : <<toPydevd[v], v>> \in given

\* What to_vscode returns for an entity is an id that to_pydevd takes back to that
\* entity, with one exception: while remove is between its two dels, to_vscode
\* still returns the id being removed, on which to_pydevd raises KeyError.  An id
\* never leads to another entity, and at rest both directions agree.
LookupConsistent ==
  \A p \in DOMAIN toVscode :
    \/ toVscode[p] \in DOMAIN toPydevd /\ toPydevd[toVscode[p]] = p
    \/ toVscode[p] \notin DOMAIN toPydevd /\ <<p, toVscode[p]>> \in removing

\* An entity has two live ids only if two to_vscode calls for it overlapped, not
\* counting an id that add has not returned yet: a map whose look-ups never
\* overlap (frame_map) is one-to-one.
OneIdUnlessContended ==
  \A v \in DOMAIN toPydevd :
    toPydevd[v] \notin contended =>
      \/ toPydevd[v] \in DOMAIN toVscode /\ toVscode[toPydevd[v]] = v
      \/ adding # NoThread /\ v = nextId - 1

\* remove never raises KeyError for the single remover, even when entries of its
\* snapshot were added again under another id meanwhile: an exception there would
\* leave on_pydevd_thread_run half done and end the debug session.
RemoveNeverRaises == ~raised
=============================================================================
