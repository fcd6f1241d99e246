------------------------------- MODULE RuleStore -------------------------------
(***************************************************************************)
(* The rules on disk, in the manager's memory and in the engine's index.   *)
(*                                                                         *)
(* Requests of the web API (rule_service.go) change rules through          *)
(* rules.Manager under m.mu, which writes one file per rule and takes the  *)
(* rule out of a file holding several ("the array file").  The manager's   *)
(* watcher goroutine gets an event for every change of a file, its own     *)
(* ones included, reads the file without m.mu and installs what it read    *)
(* under m.mu.  Every change is announced on changesChan, which            *)
(* watchRuleChanges of the engine consumes.                                *)
(*                                                                         *)
(* A rule is its body and whether it is enabled; validateRule refuses some *)
(* bodies.  Rules are shared by pointer: m.rules, the engine's index, the  *)
(* events on changesChan and a request in progress refer to objects of the *)
(* heap, and a change in place shows to everyone who has the pointer.      *)
(*                                                                         *)
(* A start is one step: a file changed between LoadRules and the arming of *)
(* the watcher is not modelled.  Nor are inline rules of the configuration *)
(* (saved at a start), hot reload switched off, YAML files, renamed files  *)
(* and edits of the array file by hand.                                    *)
(***************************************************************************)
EXTENDS Naturals, Sequences, SequencesExt, FiniteSets

CONSTANTS Ids, Bodies, Clients,
          Invalid,      \* the bodies validateRule refuses
          None,         \* no rule, no object, no file
          Torn,         \* a file that cannot be parsed: a write that has only truncated
                        \* it so far, or an edit that broke it
          ArrayFile,    \* the name of the array file
          ArrayLast,    \* the array file sorts after the files of single rules
          ChangesCap,   \* capacity of changesChan (100)
          MaxObjs,      \* bound: rule objects alive at one time
          MaxOps        \* bound: requests, edits of files and restarts

ASSUME StoreAssumption ==
    /\ Invalid \subseteq Bodies
    /\ MaxObjs >= 2 * Cardinality(Ids) + Cardinality(Clients) + ChangesCap

Empty == [id \in Ids |-> None]
Rules == [body : Bodies, enabled : BOOLEAN]
Maybe == Rules \cup {None}
Objs  == 1..MaxObjs
Ref   == Objs \cup {None}
Valid(rule) == rule.body \notin Invalid

VARIABLES file,     \* <id>.json: a rule, None or Torn
          array,    \* the rules of the array file
          heap,     \* the rule in each object, None in an object nobody refers to
          rules,    \* m.rules
          engine,   \* the engine's index: the rules that were enabled when indexed
          op,       \* what each client does, None between requests
          mu,       \* the client that holds m.mu across steps, or None
          events,   \* file names with the kind of change, not yet seen by the watcher
          watcher,  \* what the watcher is about to apply, or None
          changes,  \* changesChan
          reported, \* history: ids whose memory and file differ since an error for them
                    \* was returned or logged
          ops

disk == <<file, array>>
vars == <<file, array, heap, rules, engine, op, mu, events, watcher, changes, reported, ops>>

-----------------------------------------------------------------------------
Parsed(content) == IF content = Torn THEN None ELSE content

BadLoad == [id \in Ids |-> Parsed(file[id])]

\* LoadRules: files in the order of their names, the last one wins.  A rule that does
\* not validate is logged, and loaded all the same.
Load == [id \in Ids |->
    LET own == Parsed(file[id]) IN
    IF own = None \/ (ArrayLast /\ array[id] # None) THEN array[id] ELSE own]

\* The objects something refers to, and the rule a reference leads to.
Live == {rules[id] : id \in Ids} \cup {engine[id] : id \in Ids}
        \cup {op[c].obj : c \in {d \in Clients : op[d] # None}}
        \cup {changes[i].rule : i \in DOMAIN changes}
At(ref) == IF ref = None THEN None ELSE heap[ref]
Memory == [id \in Ids |-> At(rules[id])]

\* The heap after a step that leaves the objects as h says: the others are collected.
Heap(h) == LET live == Live' IN heap' = [o \in Objs |-> IF o \in live THEN h[o] ELSE None]

\* A new object for each member of S, taken from free.
New(S, free) == CHOOSE f \in [S -> free] : \A x, y \in S : x # y => f[x] # f[y]

\* Errors were returned or logged for the rules in S; they count as long as memory and
\* file of the rule differ.
Report(S) == reported' = {id \in reported \cup S : At(rules[id])' # Parsed(file'[id])}

Loaded == {id \in Ids : Load[id] # None}
Indexed(refs) == [id \in Ids |-> IF id \in Loaded /\ Load[id].enabled THEN refs[id] ELSE None]
Refs == LET f == New(Loaded, Objs) IN [id \in Ids |-> IF id \in Loaded THEN f[id] ELSE None]
Image == LET f == Refs IN [o \in Objs |-> IF \E id \in Loaded : f[id] = o
                                         THEN Load[CHOOSE id \in Loaded : f[id] = o] ELSE None]

\* Start: LoadRules, then rebuildRuleIndex from the enabled rules.
Started == rules' = Refs /\ engine' = Indexed(Refs) /\ heap' = Image

Init ==
    /\ file \in [Ids -> {None} \cup {r \in Rules : r.enabled /\ Valid(r)}]
    /\ array \in [Ids -> {None} \cup {r \in Rules : r.enabled /\ Valid(r)}]
    /\ rules = Refs /\ engine = Indexed(Refs) /\ heap = Image
    /\ op = [c \in Clients |-> None] /\ mu = None
    /\ events = <<>> /\ watcher = None /\ changes = <<>>
    /\ reported = {} /\ ops = 0

\* Consecutive equal notifications are merged.
Event(q, kind, name) ==
    IF q # <<>> /\ Last(q) = <<kind, name>> THEN q ELSE Append(q, <<kind, name>>)

BadNotify(kind, id, ref) == changes' = Append(changes, [kind |-> kind, id |-> id, rule |-> ref])

\* The non-blocking send on changesChan.
Notify(kind, id, ref) ==
    changes' = IF Len(changes) < ChangesCap
               THEN Append(changes, [kind |-> kind, id |-> id, rule |-> ref]) ELSE changes

\* Clients do not differ, so the next request comes from the first that is idle.
Begin(c) ==
    /\ op[c] = None /\ c = CHOOSE d \in Clients : op[d] = None
    /\ ops < MaxOps /\ ops' = ops + 1
Request(id, ref, step) == [id |-> id, obj |-> ref, data |-> None, at |-> step, rest |-> Empty]

\* A change of the rule's file or object is on its way to the other.
Underway(id) ==
    \/ \E i \in DOMAIN events : events[i][2] = id
    \/ watcher # None /\ (watcher.name = id \/ watcher.read[id] # None)
    \/ \E c \in Clients : op[c] # None /\ (op[c].id = id \/ op[c].rest[id] # None)

-----------------------------------------------------------------------------
(* Requests.                                                                 *)

\* CreateRule: a new object with an id that was never used, to be saved.
CreateRule(c, id, rule) ==
    /\ Begin(c)
    /\ rules[id] = None /\ engine[id] = None /\ file[id] = None /\ array[id] = None
    /\ ~Underway(id)
    /\ LET o == New({id}, Objs \ Live)[id] IN
       /\ op' = [op EXCEPT ![c] = Request(id, o, "save")]
       /\ heap' = [heap EXCEPT ![o] = rule]
    /\ UNCHANGED <<disk, rules, engine, mu, events, watcher, changes, reported>>

\* UpdateRule gets the manager's object from GetRule, which takes the read lock...
UpdateRule(c, id) ==
    /\ Begin(c) /\ mu = None /\ rules[id] # None
    /\ op' = [op EXCEPT ![c] = Request(id, rules[id], "edit")]
    /\ UNCHANGED <<disk, heap, rules, engine, mu, events, watcher, changes, reported>>

\* ... and changes its fields in place without any lock, also while another request is
\* in its critical section.  A condition or action that cannot be converted ends the
\* request with an error and leaves the fields changed so far.
EditRule(c, rule, converts) ==
    /\ op[c] # None /\ op[c].at = "edit"
    /\ op' = [op EXCEPT ![c] = IF converts THEN [op[c] EXCEPT !.at = "save"] ELSE None]
    /\ UNCHANGED <<disk, rules, engine, mu, events, watcher, changes, ops>>
    /\ Heap([heap EXCEPT ![op[c].obj] = rule])
    /\ Report(IF converts THEN {} ELSE {op[c].id})

\* SaveRule: a rule that does not validate is an error; the object stays as it is.
SaveRefused(c) ==
    /\ op[c] # None /\ op[c].at = "save" /\ mu = None
    /\ ~Valid(heap[op[c].obj])
    /\ op' = [op EXCEPT ![c] = None]
    /\ UNCHANGED <<disk, rules, engine, mu, events, watcher, changes, ops>>
    /\ Heap(heap)
    /\ Report({op[c].id})

\* SaveRule, first part: lock, then cleanupDuplicateInArrayFiles.  The array file is
\* removed when it is a plain array and no other rule is left in it (gone); else it is
\* truncated...  When it cannot be removed or opened, that is logged and the save goes
\* on (failed).
SaveRule(c) ==
    LET id == op[c].id
        rest == [array EXCEPT ![id] = None] IN
    /\ op[c] # None /\ op[c].at = "save" /\ mu = None
    /\ Valid(heap[op[c].obj])
    /\ mu' = c
    /\ \/ /\ op' = [op EXCEPT ![c].at = "truncate"]   \* nothing to clean, or failed
          /\ UNCHANGED <<array, events>>
       \/ /\ array[id] # None /\ rest = Empty
          /\ array' = Empty /\ events' = Event(events, "remove", ArrayFile)
          /\ op' = [op EXCEPT ![c].at = "truncate"]
       \/ /\ array[id] # None
          /\ array' = Empty /\ events' = Event(events, "write", ArrayFile)
          /\ op' = [op EXCEPT ![c].at = "array", ![c].rest = rest]
    /\ UNCHANGED <<file, heap, rules, engine, watcher, changes, reported, ops>>

\* ... and the other rules are written to it; when that fails it is logged and the save
\* goes on.
RewriteArray(c) ==
    /\ op[c] # None /\ op[c].at = "array"
    /\ op' = [op EXCEPT ![c].at = "truncate", ![c].rest = Empty]
    /\ UNCHANGED <<file, heap, rules, engine, mu, watcher, changes, ops>>
    /\ \/ /\ array' = op[c].rest /\ events' = Event(events, "write", ArrayFile)
          /\ UNCHANGED reported
       \/ /\ Report({id \in Ids : op[c].rest[id] # None})
          /\ UNCHANGED <<array, events>>

\* EnableRule and DisableRule, first part: the object is changed in place.
SwitchRule(c, id) ==
    /\ Begin(c) /\ mu = None /\ rules[id] # None
    /\ mu' = c
    /\ heap' = [heap EXCEPT ![rules[id]].enabled = ~@]
    /\ op' = [op EXCEPT ![c] = Request(id, rules[id], "truncate")]
    /\ UNCHANGED <<disk, rules, engine, events, watcher, changes>>
    /\ Report({})

\* saveRuleToFile marshals the rule and truncates the file...
Truncate(c) ==
    /\ op[c] # None /\ op[c].at = "truncate"
    /\ file' = [file EXCEPT ![op[c].id] = Torn]
    /\ events' = Event(events, "write", op[c].id)
    /\ op' = [op EXCEPT ![c].at = "write", ![c].data = heap[op[c].obj]]
    /\ UNCHANGED <<array, heap, rules, engine, mu, watcher, changes, ops>>
    /\ Report({})

BadSaveFails(c) ==
    /\ op[c] # None /\ op[c].at \in {"truncate", "write"}
    /\ op' = [op EXCEPT ![c] = None]
    /\ UNCHANGED <<disk, rules, engine, mu, events, watcher, changes, ops>>
    /\ Heap(heap)
    /\ Report({op[c].id})

\* ... or cannot open it, or cannot write it after it was truncated: the request
\* returns the error.
SaveFails(c) ==
    /\ op[c] # None /\ op[c].at \in {"truncate", "write"}
    /\ mu' = None
    /\ op' = [op EXCEPT ![c] = None]
    /\ UNCHANGED <<disk, rules, engine, events, watcher, changes, ops>>
    /\ Heap(heap)
    /\ Report({op[c].id})

\* ... and writes what was marshalled; the manager takes the object, announces it and
\* unlocks.
Commit(c) ==
    LET id == op[c].id IN
    /\ op[c] # None /\ op[c].at = "write"
    /\ file' = [file EXCEPT ![id] = op[c].data]
    /\ events' = Event(events, "write", id)
    /\ rules' = [rules EXCEPT ![id] = op[c].obj]
    /\ op' = [op EXCEPT ![c] = None]
    /\ Notify("update", id, op[c].obj)
    /\ mu' = None
    /\ UNCHANGED <<array, engine, watcher, ops>>
    /\ Heap(heap)
    /\ Report({})

\* DeleteRule: memory first, then the file; a file that cannot be removed is logged.
DeleteRule(c, id, removable) ==
    /\ Begin(c) /\ mu = None /\ rules[id] # None
    /\ removable \/ file[id] # None
    /\ rules' = [rules EXCEPT ![id] = None]
    /\ file' = IF removable THEN [file EXCEPT ![id] = None] ELSE file
    /\ events' = IF removable /\ file[id] # None THEN Event(events, "remove", id) ELSE events
    /\ Notify("delete", id, rules[id])
    /\ UNCHANGED <<array, engine, op, mu, watcher>>
    /\ Heap(heap)
    /\ Report(IF removable THEN {} ELSE {id})

-----------------------------------------------------------------------------
(* The watcher.                                                              *)

Content(name) ==
    IF name = ArrayFile THEN array
    ELSE [id \in Ids |-> IF id = name THEN Parsed(file[id]) ELSE None]

BadWatcherReads ==
    /\ watcher = None /\ events # <<>>
    /\ events' = Tail(events)
    /\ LET name == Head(events)[2] IN
       watcher' = IF mu = None THEN [kind |-> Head(events)[1], name |-> name, read |-> Content(name)] ELSE None
    /\ UNCHANGED <<disk, heap, rules, engine, op, mu, changes, reported, ops>>

\* watchFileChanges takes an event and, for a write, handleFileUpdate reads the file,
\* which needs no lock; what cannot be read or parsed is logged and changes nothing.
WatcherReads ==
    /\ watcher = None /\ events # <<>>
    /\ events' = Tail(events)
    /\ UNCHANGED <<disk, heap, rules, engine, op, mu, changes, ops>>
    /\ LET kind == Head(events)[1]
           name == Head(events)[2] IN
       /\ watcher' = IF kind = "write" /\ Content(name) = Empty THEN None
                     ELSE [kind |-> kind, name |-> name, read |-> Content(name)]
       /\ Report({id \in Ids : id = name /\ kind = "write" /\ file[id] = Torn})

\* The announcements of several rules, in the order of the file.
Announce(ids, refs) ==
    changes' = FoldLeft(LAMBDA q, id : IF Len(q) < ChangesCap
                                       THEN Append(q, [kind |-> "update", id |-> id, rule |-> refs[id]])
                                       ELSE q,
                        changes, SetToSeq(ids))

\* The rules in ids, of those the watcher read, are installed as new objects.
Install(ids) ==
    LET refs == New(ids, Objs \ Live) IN
    /\ rules' = [id \in Ids |-> IF id \in ids THEN refs[id] ELSE rules[id]]
    /\ Announce(ids, refs)
    /\ Heap([o \in Objs |-> IF \E id \in ids : refs[id] = o
                            THEN watcher.read[CHOOSE id \in ids : refs[id] = o] ELSE heap[o]])

BadFileUpdate ==
    LET read == {id \in Ids : watcher.read[id] # None}
        ids == {id \in read : Valid(watcher.read[id])} IN
    /\ watcher # None /\ watcher.kind = "write" /\ mu = None
    /\ UNCHANGED <<disk, engine, op, mu, ops>>
    /\ Install(ids)
    /\ events' = Event(events, "write", watcher.name)
    /\ watcher' = None
    /\ Report(read \ ids)

\* handleFileUpdate, second part: every rule read is installed, except one that does
\* not validate, which is logged and leaves the old rule in place.
HandleFileUpdate ==
    LET read == {id \in Ids : watcher.read[id] # None}
        ids == {id \in read : Valid(watcher.read[id])} IN
    /\ watcher # None /\ watcher.kind = "write" /\ mu = None
    /\ UNCHANGED <<disk, engine, op, mu, events, ops>>
    /\ Install(ids)
    /\ watcher' = None
    /\ Report(read \ ids)

\* handleFileDelete takes the file's name for the rule's id.
HandleFileDelete ==
    LET id == watcher.name
        known == id \in Ids /\ rules[id] # None IN
    /\ watcher # None /\ watcher.kind = "remove" /\ mu = None
    /\ UNCHANGED <<disk, engine, op, mu, events, ops>>
    /\ IF known
       THEN rules' = [rules EXCEPT ![id] = None] /\ Notify("delete", id, rules[id]) /\ Heap(heap)
       ELSE UNCHANGED <<heap, rules, changes>>
    /\ watcher' = None
    /\ Report({})

\* watchRuleChanges: the engine updates its index for "created", "updated" and
\* "deleted".
WatchRuleChanges ==
    /\ changes # <<>>
    /\ changes' = Tail(changes)
    /\ LET e == Head(changes) IN
       engine' = IF e.kind \in {"created", "updated"}
                 THEN [engine EXCEPT ![e.id] = IF heap[e.rule].enabled THEN e.rule ELSE None]
                 ELSE IF e.kind = "deleted" THEN [engine EXCEPT ![e.id] = None] ELSE engine
    /\ UNCHANGED <<disk, rules, op, mu, events, watcher, reported, ops>>
    /\ Heap(heap)

-----------------------------------------------------------------------------
(* The environment: files of single rules edited, broken or removed by hand    *)
(* (not in the middle of a write to the same file), and a crash or stop at any *)
(* point followed by a start.                                                 *)
EditFile(id, content) ==
    /\ ops < MaxOps /\ ops' = ops + 1
    /\ \A c \in Clients : mu = c /\ op[c] # None => op[c].id # id
    /\ content # file[id]
    /\ file' = [file EXCEPT ![id] = content]
    /\ events' = Event(events, IF content = None THEN "remove" ELSE "write", id)
    /\ UNCHANGED <<array, heap, rules, engine, op, mu, watcher, changes>>
    /\ Report({})

Restart ==
    /\ ops < MaxOps /\ ops' = ops + 1
    /\ Started
    /\ op' = [c \in Clients |-> None] /\ mu' = None
    /\ events' = <<>> /\ watcher' = None /\ changes' = <<>> /\ reported' = {}
    /\ UNCHANGED disk

\* The watcher goroutine, and the request of a client once it has begun.
Watch == WatcherReads \/ HandleFileUpdate \/ HandleFileDelete
Serve(c) ==
    \/ \E rule \in Rules, converts \in BOOLEAN : EditRule(c, rule, converts)
    \/ SaveRefused(c) \/ SaveRule(c) \/ RewriteArray(c) \/ Truncate(c) \/ SaveFails(c) \/ Commit(c)

Next ==
    \/ \E c \in Clients, id \in Ids, rule \in Rules : CreateRule(c, id, rule)
    \/ \E c \in Clients, id \in Ids :
          UpdateRule(c, id) \/ SwitchRule(c, id) \/ \E removable \in BOOLEAN : DeleteRule(c, id, removable)
    \/ \E id \in Ids, content \in Maybe \cup {Torn} : EditFile(id, content)
    \/ Restart
    \/ \E c \in Clients : Serve(c)
    \/ Watch \/ WatchRuleChanges

\* The goroutines run, no request stops half way, and one that waits for m.mu gets it in
\* the end (sync.RWMutex does not starve a waiter); nobody has to send a request.
Fairness == WF_vars(Watch) /\ WF_vars(WatchRuleChanges) /\ \A c \in Clients : SF_vars(Serve(c))

Spec == Init /\ [][Next]_vars /\ Fairness

-----------------------------------------------------------------------------
TypeOK ==
    /\ file \in [Ids -> Maybe \cup {Torn}] /\ array \in [Ids -> Maybe]
    /\ heap \in [Objs -> Maybe] /\ rules \in [Ids -> Ref] /\ engine \in [Ids -> Ref]
    /\ \A o \in Live \ {None} : heap[o] # None
    /\ \A c \in Clients : op[c] = None \/ op[c] \in [id : Ids, obj : Objs, data : Maybe,
                                                     at : {"edit", "save", "array", "truncate", "write"},
                                                     rest : [Ids -> Maybe]]
    /\ mu \in Clients \cup {None} /\ Len(changes) <= ChangesCap
    /\ reported \subseteq Ids /\ ops \in 0..MaxOps

\* Memory and disk never differ about a rule silently: they do only while a request or
\* an event for it is underway, or since an error for this rule was returned or logged
\* (a refused or failed request, a file that the watcher could not parse or validate).
\* No order of requests, of changes to shared objects without the lock, of the watcher's
\* reads outside m.mu and its installs leaves the manager with an old rule for good.
\* Exempt is a rule that is (also) in the array file.
DifferencePending ==
    \A id \in Ids : array[id] = None /\ id \notin reported /\ Memory[id] # Parsed(file[id])
        => Underway(id)

\* What a crash at this point takes from the disk, or has already been taken from it.
AtRisk(id) ==
    \/ file[id] = Torn                                              \* half written, or broken
    \/ \E c \in Clients : op[c] # None /\ op[c].rest[id] # None      \* the array file is half written
    \/ \E c \in Clients : /\ op[c] # None /\ op[c].id = id           \* out of the array file,
                          /\ op[c].at \in {"array", "truncate"}     \* not in its own yet
    \/ file[id] = None /\ Underway(id)                              \* removed, and not noticed yet
    \/ id \in reported

\* A crash at any point, and the start after it, loses a rule only if its file, or the
\* array file with it, was truncated and not written yet, if SaveRule had taken it out of
\* the array file and not written its own, or if the file had been removed or broken or an
\* error reported before.  A request that waits for the lock, and an event that waits for
\* the watcher, put no rule at risk.
RestartKeepsRules ==
    [][Restart => \A id \in Ids : Memory[id] # None /\ Memory'[id] = None => AtRisk(id)]_vars

\* Every request returns: no path through SaveRule keeps m.mu.
SaveReturns == \A c \in Clients : op[c] # None ~> op[c] = None

\* The watcher's reaction to the manager's own writes dies out: events are used up.
Settles == <>[](events = <<>> /\ watcher = None /\ changes = <<>>)

Quiet == (\A c \in Clients : op[c] = None) /\ events = <<>> /\ watcher = None /\ changes = <<>>

Running(rule) == IF rule # None /\ rule.enabled THEN rule ELSE None

\* Once everything is delivered the engine runs the enabled rules of the manager.
EngineFollows ==
    Quiet => \A id \in Ids \ reported : Running(At(engine[id])) = Running(Memory[id])
=============================================================================
