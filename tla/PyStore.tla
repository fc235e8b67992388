------------------------------- MODULE PyStore -------------------------------
(***************************************************************************)
(* One Store object of the Python bindings used by several threads         *)
(* (python/src/store.rs, python/src/python_traits.rs).  The bindings never *)
(* let go of the interpreter lock themselves, so threads change over only  *)
(* where Python code runs: outside the store, in the retrievers a page     *)
(* calls back, in the `name` an added retriever is asked for, and in the   *)
(* finalizers of retrievers that lose their last reference.                *)
(*                                                                         *)
(* A call that raises (store closed, object already borrowed) changes      *)
(* nothing and is no step here.                                            *)
(***************************************************************************)
EXTENDS Integers, FiniteSets, TraitStore

CONSTANTS
  Nobody,
  PyThread,
  PyObject,      \* retriever objects of the script
  Finalizing,    \* those whose finalizer runs Python code
  PyContent      \* bodies the script puts

ASSUME NobodyAssumption == Nobody \notin PyThread \union PyObject

VARIABLES
  handle,      \* inner of the Store: open or closed
  backend,     \* the block store
  registered,  \* python_retrievers
  kept,        \* objects the script itself still refers to
  finalized,   \* objects the interpreter has destroyed
  gil,         \* the thread that has the interpreter
  writer,      \* the thread that holds python_retrievers for writing
  thread       \* thread -> [pc, op, object, todo, clones]

objects == <<registered, kept, finalized>>
pyVars == <<handle, backend, objects, gil, writer, thread>>

Outside == [pc |-> "python", op |-> "none", object |-> Nobody, todo |-> {}, clones |-> {}]
InPython(t) == thread[t].pc \in {"python", "callback", "name", "finalizer"}
InRust(t, op, pc) == gil = t /\ thread[t].op = op /\ thread[t].pc = pc

(* Every method borrows the Store for as long as it runs, close alone. *)
Borrowed(t) == thread[t].pc # "python"
Closing(t) == Borrowed(t) /\ thread[t].op = "close"
MayBorrow(t) == gil = t /\ ~Borrowed(t) /\ ~\E u \in PyThread : Closing(u)

Step(t, pc) == thread' = [thread EXCEPT ![t].pc = pc]
Enter(t, op, pc, r) == thread' = [thread EXCEPT ![t] = [Outside EXCEPT !.pc = pc, !.op = op, !.object = r]]

-----------------------------------------------------------------------------
TakeGil(t) ==
  /\ gil = Nobody
  /\ gil' = t
  /\ UNCHANGED <<handle, backend, objects, writer, thread>>

LeaveGil(t) ==
  /\ gil = t /\ InPython(t)
  /\ gil' = Nobody
  /\ UNCHANGED <<handle, backend, objects, writer, thread>>

-----------------------------------------------------------------------------
(* What a call in progress refers to: the clones of its pager, or the      *)
(* argument of add_python_retriever.                                       *)
Holds(u) == thread[u].clones \union (IF thread[u].op = "add" THEN {thread[u].object} ELSE {})

(* FinalizedWhenUnused: what a page in progress still holds goes as well. *)
Unused_ClonesForgotten(R, t) == {r \in R : r \notin kept}

(* Of the objects R whose registration or clones thread t gives up, those  *)
(* nobody refers to any more.                                              *)
Unused(R, t) ==
  {r \in R : r \notin kept /\ \A u \in PyThread \ {t} : r \notin Holds(u)}

(* The pager of t is dropped, after the page or its error. *)
DropPager(t) ==
  LET gone == Unused(thread[t].clones \ registered, t) IN
  /\ finalized' = finalized \union gone
  /\ thread' = [thread EXCEPT ![t] =
       IF gone \intersect Finalizing # {} THEN [@ EXCEPT !.pc = "finalizer", !.todo = {}, !.clones = {}] ELSE Outside]
  /\ UNCHANGED <<handle, backend, registered, kept, gil, writer>>

(* page and pack build a pager with clones of the registered retrievers.   *)
PageCall(t) ==
  /\ MayBorrow(t) /\ handle = "open"
  /\ Enter(t, "page", "read_lock", Nobody)
  /\ UNCHANGED <<handle, backend, objects, gil, writer>>

(* A [[retriever]] entry is of an unknown kind. *)
BuildRetrieversFails(t) ==
  /\ InRust(t, "page", "read_lock")
  /\ thread' = [thread EXCEPT ![t] = Outside]
  /\ UNCHANGED <<handle, backend, objects, gil, writer>>

MakePager(t) ==
  /\ InRust(t, "page", "read_lock") /\ writer = Nobody
  /\ thread' = [thread EXCEPT ![t].pc = "page", ![t].todo = registered, ![t].clones = registered]
  /\ UNCHANGED <<handle, backend, objects, gil, writer>>

(* The pager calls each clone back; one that raises ends the page. *)
CallRetriever(t, r) ==
  /\ InRust(t, "page", "page") /\ r \in thread[t].todo
  /\ thread' = [thread EXCEPT ![t].pc = "callback", ![t].object = r, ![t].todo = @ \ {r}]
  /\ UNCHANGED <<handle, backend, objects, gil, writer>>

RetrieverReturns(t) ==
  /\ InRust(t, "page", "callback")
  /\ Step(t, "page")
  /\ UNCHANGED <<handle, backend, objects, gil, writer>>

RetrieverRaises(t) == InRust(t, "page", "callback") /\ DropPager(t)

PageReturns(t) == InRust(t, "page", "page") /\ thread[t].todo = {} /\ DropPager(t)

-----------------------------------------------------------------------------
(* OnlyFinalizersBlock: the list is locked before the name is asked for. *)
AddCall_LockFirst(t, r) ==
  /\ MayBorrow(t) /\ r \in kept /\ writer = Nobody
  /\ Enter(t, "add", "name", r)
  /\ writer' = t
  /\ UNCHANGED <<handle, backend, objects, gil>>

(* Also on a closed store. *)
AddCall(t, r) ==
  /\ MayBorrow(t) /\ r \in kept
  /\ Enter(t, "add", "name", r)
  /\ UNCHANGED <<handle, backend, objects, gil, writer>>

NameRead(t) ==
  /\ InRust(t, "add", "name")
  /\ Step(t, "write_lock")
  /\ UNCHANGED <<handle, backend, objects, gil, writer>>

(* An object without a name is refused. *)
NameMissing(t) ==
  /\ InRust(t, "add", "name")
  /\ thread' = [thread EXCEPT ![t] = Outside]
  /\ finalized' = finalized \union Unused({thread[t].object} \ registered, t)
  /\ UNCHANGED <<handle, backend, registered, kept, gil, writer>>

PushRetriever(t) ==
  /\ InRust(t, "add", "write_lock") /\ writer \in {Nobody, t}
  /\ registered' = registered \union {thread[t].object}
  /\ thread' = [thread EXCEPT ![t] = Outside]
  /\ writer' = Nobody
  /\ UNCHANGED <<handle, backend, kept, finalized, gil>>

(* The list is emptied under its lock, and a finalizer that runs Python    *)
(* code runs before the lock is given back.                                *)
EmptyList(t, op) ==
  LET gone == Unused(registered, t) IN
  /\ writer = Nobody
  /\ registered' = {}
  /\ finalized' = finalized \union gone
  /\ IF gone \intersect Finalizing # {}
     THEN writer' = t /\ Enter(t, op, "finalizer", Nobody)
     ELSE writer' = Nobody /\ thread' = [thread EXCEPT ![t] = Outside]
  /\ UNCHANGED <<backend, kept, gil>>

ClearCall(t) ==
  /\ MayBorrow(t)
  /\ Enter(t, "clear", "write_lock", Nobody)
  /\ UNCHANGED <<handle, backend, objects, gil, writer>>

ClearRetrievers(t) ==
  /\ InRust(t, "clear", "write_lock")
  /\ EmptyList(t, "clear")
  /\ UNCHANGED handle

FinalizerReturns(t) ==
  /\ gil = t /\ thread[t].pc = "finalizer"
  /\ thread' = [thread EXCEPT ![t] = Outside]
  /\ writer' = IF writer = t THEN Nobody ELSE writer
  /\ UNCHANGED <<handle, backend, objects, gil>>

(* ClosedMeansReleased: close borrows the store as every other method. *)
Close_Shared(t) ==
  /\ MayBorrow(t)
  /\ handle' = "closed"
  /\ EmptyList(t, "close")

(* Refused while any other call is in progress. *)
Close(t) ==
  /\ MayBorrow(t) /\ \A u \in PyThread : ~Borrowed(u)
  /\ handle' = "closed"
  /\ EmptyList(t, "close")

-----------------------------------------------------------------------------
(* The calls that take one step: put, delete, purge_session, add_edge, and *)
(* those that only read.                                                   *)
StoreCall(t) ==
  /\ MayBorrow(t) /\ handle = "open"
  /\ \E s \in Owner, b, c \in PyContent :
       backend' \in {WithBlock(backend, s, b), WithoutBlock(backend, b), WithoutSession(backend, s),
                     WithEdge(backend, <<b, c>>), backend}
  /\ UNCHANGED <<handle, objects, gil, writer, thread>>

(* The script forgets an object. *)
DropReference(t, r) ==
  /\ gil = t /\ thread[t].pc = "python" /\ r \in kept
  /\ kept' = kept \ {r}
  /\ finalized' = IF r \in registered \/ \E u \in PyThread : r \in Holds(u)
                  THEN finalized ELSE finalized \union {r}
  /\ UNCHANGED <<handle, backend, registered, gil, writer, thread>>

PyInit ==
  /\ handle = "open"
  /\ backend = [refs |-> {}, edges |-> {}]
  /\ registered = {} /\ kept = PyObject /\ finalized = {}
  /\ gil = Nobody /\ writer = Nobody
  /\ thread = [t \in PyThread |-> Outside]

PyNext ==
  \E t \in PyThread :
    \/ TakeGil(t) \/ LeaveGil(t)
    \/ PageCall(t) \/ BuildRetrieversFails(t) \/ MakePager(t) \/ RetrieverReturns(t) \/ RetrieverRaises(t) \/ PageReturns(t)
    \/ NameRead(t) \/ NameMissing(t) \/ PushRetriever(t)
    \/ ClearCall(t) \/ ClearRetrievers(t) \/ FinalizerReturns(t)
    \/ Close(t) \/ StoreCall(t)
    \/ \E r \in PyObject : CallRetriever(t, r) \/ AddCall(t, r) \/ DropReference(t, r)

PySpec == PyInit /\ [][PyNext]_pyVars

-----------------------------------------------------------------------------
(* A thread that has the interpreter waits for the list of retrievers only *)
(* while clear_python_retrievers runs a finalizer written in Python: every *)
(* other call leaves the list unlocked whenever threads can change over.   *)
(* (In that one case neither thread ever continues.)                       *)
OnlyFinalizersBlock ==
  \A t \in PyThread :
    gil = t /\ thread[t].pc \in {"read_lock", "write_lock"} /\ writer \notin {Nobody, t} =>
      /\ thread[writer].op = "clear" /\ thread[writer].pc = "finalizer"
      /\ finalized \intersect Finalizing # {}

(* A retriever object is destroyed when the script, the list and the pages *)
(* in progress have all let go of it, neither earlier (a page would call a *)
(* dead object) nor never.                                                 *)
FinalizedWhenUnused ==
  finalized = PyObject \ (kept \union registered \union UNION {Holds(t) : t \in PyThread})

(* Once close has returned, nothing of the backend is in use by a page and *)
(* no call changes it.                                                     *)
ClosedMeansReleased ==
  [][handle' = "closed" =>
       /\ backend' = backend
       /\ \A t \in PyThread : ~(thread'[t].op = "page" /\ thread'[t].pc \in {"read_lock", "page", "callback"})]_pyVars
=============================================================================
