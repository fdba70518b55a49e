----------------------------- MODULE LogThreads -----------------------------
(***************************************************************************)
(* log4cpp/src/Category.cpp, HierarchyMaintainer.cpp and Appender.cpp used *)
(* by several threads: the hierarchy of categories, the appenders attached *)
(* to them, the registry of all appenders by name, and the mutexes that    *)
(* guard them.  callAppenders() of a category keeps its mutex while the    *)
(* parent's appenders are called; an appender is deleted under the mutex   *)
(* of the category that owns it and unregistered under that of the         *)
(* registry.                                                               *)
(*                                                                         *)
(* An operation that takes a single mutex and calls nothing under it is    *)
(* one step.  Handlers registered for shutdown(), which only SmtpAppender  *)
(* does, are left out.                                                     *)
(***************************************************************************)
EXTENDS Naturals, Sequences, FiniteSets

CONSTANTS
  Threads, Admins,    \* threads that log; those that change the configuration too
  Cats, Root,         \* the names of categories
  Parent, Depth,      \* the hierarchy: "a.b" is below "a", which is below ""
  Appenders, Names,   \* appenders, and the names they are registered under
  NameOf,
  NoOne,              \* nothing, nobody
  (* Bounds of the model. *)
  MaxLogged,          \* events logged
  MaxChanges          \* changes of the configuration

ASSUME ThreadsAssumption ==
  /\ Admins \subseteq Threads /\ NoOne \notin Threads
  /\ Root \in Cats /\ NoOne \notin Cats /\ NoOne \notin Appenders
  /\ "maintainer" \notin Cats /\ "map" \notin Cats
  /\ Parent \in [Cats \ {Root} -> Cats] /\ Depth \in [Cats -> Nat]
  /\ \A c \in Cats \ {Root} : Depth[Parent[c]] < Depth[c]
  /\ NameOf \in [Appenders -> Names]

VARIABLES
  lock,        \* who holds each mutex
  known,       \* _categoryMap
  additive,    \* _isAdditive
  attached,    \* _appender
  owns,        \* the appenders of it that _ownsAppender says are owned
  life,        \* "none", "alive", "dying": its destructor has begun, "dead"
  registry,    \* _allAppenders
  pc, cat, app, todo,   \* where each thread is: in which category, in or at which
                        \* appender, which appenders are still to come
  left,        \* the categories shutdown() has still to clear
  forced,      \* whether it is to delete all appenders then
  after,       \* what it does when an appender is deleted
  event,       \* the event it logs
  events,      \* history: the category each event was logged to
  out,         \* history: what each appender has appended
  changes      \* history: what the bound counts

threadVars == <<pc, cat, app, todo, left, forced, after, event>>
configVars == <<known, additive, attached, owns, life, registry>>
logVars == <<lock, configVars, threadVars, events, out, changes>>

Locks == {"maintainer", "map"} \cup Cats

Registered == {registry[n] : n \in Names} \ {NoOne}

ThreadsInit ==
  /\ lock = [l \in Locks |-> NoOne]
  /\ known = {Root}
  /\ additive = [c \in Cats |-> TRUE]
  /\ attached = [c \in Cats |-> {}] /\ owns = [c \in Cats |-> {}]
  /\ life = [a \in Appenders |-> "none"]
  /\ registry = [n \in Names |-> NoOne]
  /\ pc = [t \in Threads |-> "idle"]
  /\ cat = [t \in Threads |-> Root]
  /\ app = [t \in Threads |-> NoOne]
  /\ todo = [t \in Threads |-> {}] /\ left = [t \in Threads |-> {}]
  /\ forced = [t \in Threads |-> FALSE]
  /\ after = [t \in Threads |-> "idle"]
  /\ event = [t \in Threads |-> 0]
  /\ events = <<>>
  /\ out = [a \in Appenders |-> <<>>]
  /\ changes = 0

Goto(t, place) == pc' = [pc EXCEPT ![t] = place]
Take(l, t) == lock[l] = NoOne /\ lock' = [lock EXCEPT ![l] = t]
Release(l) == lock' = [lock EXCEPT ![l] = NoOne]

-----------------------------------------------------------------------------
(* Logging. *)

\* log(), of an event the category's priority lets pass.
Log(t, c) ==
  /\ pc[t] = "idle" /\ c \in known /\ Len(events) < MaxLogged
  /\ events' = Append(events, c)
  /\ event' = [event EXCEPT ![t] = Len(events) + 1]
  /\ cat' = [cat EXCEPT ![t] = c]
  /\ Goto(t, "lock")
  /\ UNCHANGED <<lock, configVars, app, todo, left, forced, after, out, changes>>

\* Wrong on purpose: nobody waits.
CallUnlocked(t) ==
  /\ pc[t] = "lock"
  /\ lock' = [lock EXCEPT ![cat[t]] = t]
  /\ todo' = [todo EXCEPT ![t] = attached[cat[t]]]
  /\ Goto(t, "call")
  /\ UNCHANGED <<configVars, cat, app, left, forced, after, event, events, out, changes>>

\* callAppenders() of a category: wait for its mutex.
LockCategory(t) ==
  /\ pc[t] = "lock"
  /\ Take(cat[t], t)
  /\ todo' = [todo EXCEPT ![t] = attached[cat[t]]]
  /\ Goto(t, "call")
  /\ UNCHANGED <<configVars, cat, app, left, forced, after, event, events, out, changes>>

\* The set of appenders is sorted by their addresses: any order.
DoAppend(t) ==
  /\ pc[t] = "call"
  /\ \E a \in todo[t] :
       /\ app' = [app EXCEPT ![t] = a]
       /\ todo' = [todo EXCEPT ![t] = @ \ {a}]
  /\ Goto(t, "inside")
  /\ UNCHANGED <<lock, configVars, cat, left, forced, after, event, events, out, changes>>

Appended(t) ==
  /\ pc[t] = "inside"
  /\ out' = [out EXCEPT ![app[t]] = Append(@, event[t])]
  /\ Goto(t, "call")
  /\ UNCHANGED <<lock, configVars, cat, app, todo, left, forced, after, event, events, changes>>

Ascends(t) == additive[cat[t]] /\ cat[t] # Root

\* Wrong on purpose: the mutex is given back before the parent is called.
CallParentUnlocked(t) ==
  /\ pc[t] = "call" /\ todo[t] = {} /\ Ascends(t)
  /\ Release(cat[t])
  /\ cat' = [cat EXCEPT ![t] = Parent[cat[t]]]
  /\ Goto(t, "lock")
  /\ UNCHANGED <<configVars, app, todo, left, forced, after, event, events, out, changes>>

\* The parent's callAppenders(), called with the mutex held.
CallParent(t) ==
  /\ pc[t] = "call" /\ todo[t] = {} /\ Ascends(t)
  /\ cat' = [cat EXCEPT ![t] = Parent[cat[t]]]
  /\ Goto(t, "lock")
  /\ UNCHANGED <<lock, configVars, app, todo, left, forced, after, event, events, out, changes>>

CallsDone(t) ==
  /\ pc[t] = "call" /\ todo[t] = {} /\ ~Ascends(t)
  /\ Goto(t, "return")
  /\ UNCHANGED <<lock, configVars, cat, app, todo, left, forced, after, event, events, out, changes>>

\* The calls return from the parent to the child, each giving back its mutex.
Return(t) ==
  /\ pc[t] = "return"
  /\ Release(cat[t])
  /\ LET held == {c \in Cats \ {cat[t]} : lock[c] = t} IN
       \/ held = {} /\ Goto(t, "idle") /\ UNCHANGED cat
       \/ /\ \E c \in held : /\ \A d \in held \ {c} : Depth[c] < Depth[d]
                             /\ cat' = [cat EXCEPT ![t] = c]
          /\ UNCHANGED pc
  /\ UNCHANGED <<configVars, app, todo, left, forced, after, event, events, out, changes>>

Logging(t) ==
  \/ \E c \in Cats : Log(t, c)
  \/ LockCategory(t) \/ DoAppend(t) \/ Appended(t)
  \/ CallParent(t) \/ CallsDone(t) \/ Return(t)

-----------------------------------------------------------------------------
(* Configuration. *)

Change(t) ==
  /\ pc[t] = "idle" /\ changes < MaxChanges
  /\ changes' = changes + 1
  /\ UNCHANGED <<event, events, out>>

\* Appender(): the name's former appender, if any, is not registered any more.
NewAppender(t, a) ==
  /\ Change(t)
  /\ life[a] = "none" /\ lock["map"] = NoOne
  /\ life' = [life EXCEPT ![a] = "alive"]
  /\ registry' = [registry EXCEPT ![NameOf[a]] = a]
  /\ UNCHANGED <<lock, known, additive, attached, owns, threadVars>>

\* getInstance(): the category is made with those above it.
Above(c) ==
  LET up[d \in Cats] == {d} \cup (IF d = Root THEN {} ELSE up[Parent[d]]) IN up[c] \cap Cats

GetInstance(t, c) ==
  /\ Change(t)
  /\ c \notin known /\ lock["maintainer"] = NoOne
  /\ known' = known \cup Above(c)
  /\ UNCHANGED <<lock, additive, attached, owns, life, registry, threadVars>>

setAdditivity(t, c) ==
  /\ Change(t)
  /\ c \in known
  /\ additive' = [additive EXCEPT ![c] = ~@]
  /\ UNCHANGED <<lock, known, attached, owns, life, registry, threadVars>>

\* addAppender(), of a pointer, which gives the appender away, or of a
\* reference.  Callers give an appender away once, and not one that is attached
\* already.
AddAppender(t, c, a, own) ==
  /\ Change(t)
  /\ c \in known /\ life[a] = "alive" /\ lock[c] = NoOne
  /\ \A d \in Cats : a \notin owns[d]
  /\ own => \A d \in Cats : a \notin attached[d]
  /\ attached' = [attached EXCEPT ![c] = @ \cup {a}]
  /\ owns' = IF own THEN [owns EXCEPT ![c] = @ \cup {a}] ELSE owns
  /\ UNCHANGED <<lock, known, additive, life, registry, threadVars>>

\* removeAppender(): what is owned is deleted first, then it is taken out.
RemoveAppender(t, c, a) ==
  /\ Change(t)
  /\ c \in known /\ a \in attached[c]
  /\ Take(c, t)
  /\ cat' = [cat EXCEPT ![t] = c]
  /\ app' = [app EXCEPT ![t] = a]
  /\ todo' = [todo EXCEPT ![t] = {a} \cap owns[c]]
  /\ Goto(t, "removeAppender")
  /\ UNCHANGED <<configVars, left, forced, after>>

RemoveAll(t, c) ==
  /\ Change(t)
  /\ c \in known
  /\ Take(c, t)
  /\ cat' = [cat EXCEPT ![t] = c]
  /\ todo' = [todo EXCEPT ![t] = owns[c]]
  /\ Goto(t, "removeAll")
  /\ UNCHANGED <<configVars, app, left, forced, after>>

\* delete: the destructors of the appender's class, then Appender's own.
Delete(t) ==
  /\ pc[t] \in {"removeAppender", "removeAll", "deleteAll"}
  /\ \E a \in todo[t] :
       /\ life' = [life EXCEPT ![a] = "dying"]
       /\ app' = [app EXCEPT ![t] = a]
       /\ todo' = [todo EXCEPT ![t] = @ \ {a}]
  /\ after' = [after EXCEPT ![t] = pc[t]]
  /\ Goto(t, "unregister")
  /\ UNCHANGED <<lock, known, additive, attached, owns, registry>>
  /\ UNCHANGED <<cat, left, forced, event, events, out, changes>>

\* _removeAppender(): whatever is registered under the name is taken out.
Unregister(t) ==
  /\ pc[t] = "unregister" /\ lock["map"] = NoOne
  /\ registry' = [registry EXCEPT ![NameOf[app[t]]] = NoOne]
  /\ life' = [life EXCEPT ![app[t]] = "dead"]
  /\ Goto(t, after[t])
  /\ UNCHANGED <<lock, known, additive, attached, owns>>
  /\ UNCHANGED <<cat, app, todo, left, forced, after, event, events, out, changes>>

\* Wrong on purpose: the owned appenders are deleted, but stay in the set.
ForgetToClear(t) ==
  /\ pc[t] \in {"removeAppender", "removeAll"} /\ todo[t] = {}
  /\ Release(cat[t])
  /\ Goto(t, IF lock["maintainer"] = t THEN "shutdown" ELSE "idle")
  /\ UNCHANGED <<configVars, cat, app, todo, left, forced, after, event, events, out, changes>>

\* The appenders leave the set, the mutex is given back.
Removed(t) ==
  /\ pc[t] \in {"removeAppender", "removeAll"} /\ todo[t] = {}
  /\ LET rest == IF pc[t] = "removeAll" THEN {} ELSE attached[cat[t]] \ {app[t]} IN
       /\ attached' = [attached EXCEPT ![cat[t]] = rest]
       /\ owns' = [owns EXCEPT ![cat[t]] = @ \cap rest]
  /\ Release(cat[t])
  /\ Goto(t, IF lock["maintainer"] = t THEN "shutdown" ELSE "idle")
  /\ UNCHANGED <<known, additive, life, registry>>
  /\ UNCHANGED <<cat, app, todo, left, forced, after, event, events, out, changes>>

\* shutdown() and shutdownForced()
Shutdown(t, force) ==
  /\ Change(t)
  /\ Take("maintainer", t)
  /\ left' = [left EXCEPT ![t] = known]
  /\ forced' = [forced EXCEPT ![t] = force]
  /\ Goto(t, "shutdown")
  /\ UNCHANGED <<configVars, cat, app, todo, after>>

ShutdownCategory(t) ==
  /\ pc[t] = "shutdown"
  /\ \E c \in left[t] :
       /\ Take(c, t)
       /\ left' = [left EXCEPT ![t] = @ \ {c}]
       /\ cat' = [cat EXCEPT ![t] = c]
       /\ todo' = [todo EXCEPT ![t] = owns[c]]
  /\ Goto(t, "removeAll")
  /\ UNCHANGED <<configVars, app, forced, after, event, events, out, changes>>

ShutdownDone(t) ==
  /\ pc[t] = "shutdown" /\ left[t] = {}
  /\ Release("maintainer")
  /\ Goto(t, IF forced[t] THEN "collect" ELSE "idle")
  /\ UNCHANGED <<configVars, cat, app, todo, left, forced, after, event, events, out, changes>>

\* Wrong on purpose: the appenders are deleted with the mutex held.
CollectLocked(t) ==
  /\ pc[t] = "collect"
  /\ Take("map", t)
  /\ todo' = [todo EXCEPT ![t] = Registered]
  /\ registry' = [n \in Names |-> NoOne]
  /\ Goto(t, "deleteAll")
  /\ UNCHANGED <<known, additive, attached, owns, life>>
  /\ UNCHANGED <<cat, app, left, forced, after, event, events, out, changes>>

\* _deleteAllAppenders(): the registry is copied and cleared under the mutex,
\* the appenders are deleted without it.
Collect(t) ==
  /\ pc[t] = "collect" /\ lock["map"] = NoOne
  /\ todo' = [todo EXCEPT ![t] = Registered]
  /\ registry' = [n \in Names |-> NoOne]
  /\ Goto(t, "deleteAll")
  /\ UNCHANGED <<lock, known, additive, attached, owns, life>>
  /\ UNCHANGED <<cat, app, left, forced, after, event, events, out, changes>>

AllDeleted(t) ==
  /\ pc[t] = "deleteAll" /\ todo[t] = {}
  /\ Goto(t, "idle")
  /\ UNCHANGED <<lock, configVars, cat, app, todo, left, forced, after, event, events, out, changes>>

\* reopenAll() and closeAll() call every registered appender with the mutex of
\* the registry alone, while others may be in its doAppend().
CallAll(t, all) ==
  /\ Change(t)
  /\ Take("map", t)
  /\ todo' = [todo EXCEPT ![t] = Registered]
  /\ Goto(t, all)
  /\ UNCHANGED <<configVars, cat, app, left, forced, after>>

CallNext(t) ==
  /\ pc[t] \in {"reopenAll", "closeAll"}
  /\ \E a \in todo[t] :
       /\ app' = [app EXCEPT ![t] = a]
       /\ todo' = [todo EXCEPT ![t] = @ \ {a}]
  /\ Goto(t, IF pc[t] = "reopenAll" THEN "reopen" ELSE "close")
  /\ UNCHANGED <<lock, configVars, cat, left, forced, after, event, events, out, changes>>

\* After the first reopen() that fails no other is called: result && reopen().
CallReturns(t) ==
  /\ pc[t] \in {"reopen", "close"}
  /\ \/ UNCHANGED todo
     \/ pc[t] = "reopen" /\ todo' = [todo EXCEPT ![t] = {}]
  /\ Goto(t, IF pc[t] = "reopen" THEN "reopenAll" ELSE "closeAll")
  /\ UNCHANGED <<lock, configVars, cat, app, left, forced, after, event, events, out, changes>>

AllCalled(t) ==
  /\ pc[t] \in {"reopenAll", "closeAll"} /\ todo[t] = {}
  /\ Release("map")
  /\ Goto(t, "idle")
  /\ UNCHANGED <<configVars, cat, app, todo, left, forced, after, event, events, out, changes>>

Configuring(t) ==
  \/ \E a \in Appenders : NewAppender(t, a)
  \/ \E c \in Cats : GetInstance(t, c) \/ setAdditivity(t, c) \/ RemoveAll(t, c)
  \/ \E c \in Cats, a \in Appenders :
       RemoveAppender(t, c, a) \/ \E own \in BOOLEAN : AddAppender(t, c, a, own)
  \/ Delete(t) \/ Unregister(t) \/ Removed(t)
  \/ \E force \in BOOLEAN : Shutdown(t, force)
  \/ ShutdownCategory(t) \/ ShutdownDone(t) \/ Collect(t) \/ AllDeleted(t)
  \/ \E all \in {"reopenAll", "closeAll"} : CallAll(t, all)
  \/ CallNext(t) \/ CallReturns(t) \/ AllCalled(t)

ThreadsNext ==
  \/ \E t \in Threads : Logging(t)
  \/ \E t \in Admins : Configuring(t)

ThreadsSpec == ThreadsInit /\ [][ThreadsNext]_logVars

-----------------------------------------------------------------------------

Held(t) == {l \in Locks : lock[l] = t}

\* The mutexes a thread may be waiting for while it holds others.
Wanted(t) ==
  CASE pc[t] = "lock" -> {cat[t]}
    [] pc[t] \in {"unregister", "collect"} -> {"map"}
    [] pc[t] = "shutdown" -> left[t]
    [] OTHER -> {}

\* From the outside in: the maintainer's, a category's, its parent's, the map's.
Outside(l, m) ==
  \/ l = "maintainer" /\ m # "maintainer"
  \/ m = "map" /\ l # "map"
  \/ l \in Cats /\ m \in Cats /\ Depth[m] < Depth[l]

\* The threads agree on an order of the mutexes, so that they never wait for one
\* another in a circle: logging up the hierarchy, deleting an appender in a
\* category and shutting all categories down can meet in any way.
LockOrder ==
  \A t \in Threads : \A l \in Held(t), m \in Wanted(t) : Outside(l, m)

Calls(t, a) == pc[t] \in {"inside", "reopen", "close"} /\ app[t] = a

\* No more threads are in an appender's doAppend() than there are categories it
\* is attached to; and besides them at most one is in its reopen() or close(),
\* which nothing keeps apart from a doAppend().
Serialized ==
  \A a \in Appenders :
    LET attachedTo == Cardinality({c \in Cats : a \in attached[c]}) IN
      /\ Cardinality({t \in Threads : Calls(t, a) /\ pc[t] = "inside"}) <= attachedTo
      /\ Cardinality({t \in Threads : Calls(t, a)}) <= attachedTo + 1

\* No event is given to an appender that is being deleted, nor is it reopened or
\* closed, and none that is dead is in the registry.
NoneUsedAfterDelete ==
  /\ \A t \in Threads, a \in Appenders : Calls(t, a) => life[a] = "alive"
  /\ \A n \in Names : registry[n] # NoOne => life[registry[n]] # "dead"

\* Two events logged to one category come in the same order in all appenders, be
\* they the category's own or those of its parents.
SameOrder ==
  \A a, b \in Appenders :
    \A i, j \in DOMAIN out[a], k, l \in DOMAIN out[b] :
      /\ i < j /\ out[a][i] = out[b][k] /\ out[a][j] = out[b][l]
      /\ out[a][i] # out[a][j] /\ events[out[a][i]] = events[out[a][j]]
      => k < l
=============================================================================
