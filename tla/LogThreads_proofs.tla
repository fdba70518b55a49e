-------------------------- MODULE LogThreads_proofs -------------------------
(***************************************************************************)
(* Proofs that the threads of LogThreads agree on an order of the mutexes, *)
(* that an appender of one category is in one doAppend() at a time and     *)
(* none is called after it was deleted, and that all appenders get the     *)
(* events of a category in the same order.                                 *)
(***************************************************************************)
EXTENDS LogThreads, SequenceTheorems, FiniteSetTheorems, FunctionTheorems, TLAPS

Places == {"idle", "lock", "call", "inside", "return", "removeAppender", "removeAll",
           "unregister", "shutdown", "collect", "deleteAll",
           "reopenAll", "reopen", "closeAll", "close"}

TypeInv ==
  /\ lock \in [Locks -> Threads \cup {NoOne}]
  /\ known \subseteq Cats
  /\ attached \in [Cats -> SUBSET Appenders] /\ owns \in [Cats -> SUBSET Appenders]
  /\ registry \in [Names -> Appenders \cup {NoOne}]
  /\ pc \in [Threads -> Places]
  /\ cat \in [Threads -> Cats]
  /\ app \in [Threads -> Appenders \cup {NoOne}]
  /\ todo \in [Threads -> SUBSET Appenders]
  /\ left \in [Threads -> SUBSET Cats]
  /\ after \in [Threads -> Places]

\* The mutexes a thread holds, by where it is.
HoldsInv(t) ==
  /\ pc[t] \in {"idle", "collect", "deleteAll"} => Held(t) = {}
  /\ pc[t] \in {"reopenAll", "reopen", "closeAll", "close"} => Held(t) = {"map"}
  /\ pc[t] = "shutdown" => Held(t) = {"maintainer"}
  /\ pc[t] \in {"removeAppender", "removeAll"} =>
       lock[cat[t]] = t /\ Held(t) \subseteq {cat[t], "maintainer"}
  /\ pc[t] = "unregister" =>
       /\ after[t] \in {"removeAppender", "removeAll", "deleteAll"}
       /\ after[t] = "deleteAll" => Held(t) = {}
       /\ after[t] # "deleteAll" => lock[cat[t]] = t /\ Held(t) \subseteq {cat[t], "maintainer"}
  /\ pc[t] = "lock" => \A l \in Held(t) : l \in Cats /\ Depth[cat[t]] < Depth[l]
  /\ pc[t] \in {"call", "inside", "return"} =>
       /\ lock[cat[t]] = t
       /\ \A l \in Held(t) \ {cat[t]} : l \in Cats /\ Depth[cat[t]] < Depth[l]

\* A thread calls the appenders of the category whose mutex it holds.
CallInv(t) ==
  /\ pc[t] = "call" => todo[t] \subseteq attached[cat[t]]
  /\ pc[t] = "inside" => todo[t] \subseteq attached[cat[t]] /\ app[t] \in attached[cat[t]]

IInv == TypeInv /\ \A t \in Threads : HoldsInv(t) /\ CallInv(t)

-----------------------------------------------------------------------------

\* A step of a thread that takes and gives back mutexes of its own leaves the
\* other threads alone, unless it takes appenders from a category whose mutex it
\* does not hold.
LEMMA OthersUnchanged ==
  ASSUME IInv, NEW t \in Threads,
         \A l \in Locks : lock'[l] = lock[l] \/ (lock[l] \in {NoOne, t} /\ lock'[l] \in {NoOne, t}),
         \A u \in Threads \ {t} :
           /\ pc'[u] = pc[u] /\ cat'[u] = cat[u] /\ app'[u] = app[u] /\ todo'[u] = todo[u]
           /\ after'[u] = after[u],
         \A c \in Cats : attached[c] \subseteq attached'[c] \/ lock[c] = t
  PROVE  \A u \in Threads \ {t} : HoldsInv(u)' /\ CallInv(u)'
<1> SUFFICES ASSUME NEW u \in Threads \ {t} PROVE HoldsInv(u)' /\ CallInv(u)'
  OBVIOUS
<1>1. u # NoOne /\ t # NoOne /\ u # t
  BY ThreadsAssumption
<1>2. \A l \in Locks : lock'[l] = u <=> lock[l] = u
  BY <1>1
<1>3. Held(u)' = Held(u)
  BY <1>2 DEF Held
<1>4. cat[u] \in Cats /\ cat[u] \in Locks
  BY DEF IInv, TypeInv, Locks
<1>5. HoldsInv(u)'
  BY <1>2, <1>3, <1>4 DEF IInv, HoldsInv
<1>6. CallInv(u)'
  <2>1. pc[u] \in {"call", "inside"} => attached[cat[u]] \subseteq attached'[cat[u]]
    BY <1>1, <1>4 DEF IInv, HoldsInv
  <2> QED BY <2>1 DEF IInv, CallInv
<1> QED BY <1>5, <1>6

\* It is then enough to look at the thread that moves.
LEMMA StepInv ==
  ASSUME IInv, NEW t \in Threads, TypeInv',
         \A l \in Locks : lock'[l] = lock[l] \/ (lock[l] \in {NoOne, t} /\ lock'[l] \in {NoOne, t}),
         \A u \in Threads \ {t} :
           /\ pc'[u] = pc[u] /\ cat'[u] = cat[u] /\ app'[u] = app[u] /\ todo'[u] = todo[u]
           /\ after'[u] = after[u],
         \A c \in Cats : attached[c] \subseteq attached'[c] \/ lock[c] = t,
         HoldsInv(t)', CallInv(t)'
  PROVE  IInv'
BY OthersUnchanged DEF IInv

\* Every step keeps the types.
LEMMA TypeStep == IInv /\ [ThreadsNext]_logVars => TypeInv'
<1> SUFFICES ASSUME IInv, [ThreadsNext]_logVars PROVE TypeInv'
  OBVIOUS
<1> USE ThreadsAssumption DEF IInv, TypeInv, Locks, Places
<1>1. CASE UNCHANGED logVars
  BY <1>1 DEF logVars, threadVars, configVars
<1>2. ASSUME NEW t \in Threads, Logging(t) PROVE TypeInv'
  <2>1. ASSUME NEW c \in Cats, Log(t, c) PROVE TypeInv'
    BY <2>1 DEF Log, Goto, configVars
  <2>2. CASE LockCategory(t)
    <3>1. cat[t] \in Cats /\ attached[cat[t]] \in SUBSET Appenders
      OBVIOUS
    <3> QED BY <2>2, <3>1 DEF LockCategory, Take, Goto, configVars
  <2>3. CASE DoAppend(t)
    BY <2>3 DEF DoAppend, Goto, configVars
  <2>4. CASE Appended(t)
    BY <2>4 DEF Appended, Goto, configVars
  <2>5. CASE CallParent(t)
    BY <2>5 DEF CallParent, Ascends, Goto, configVars
  <2>6. CASE CallsDone(t)
    BY <2>6 DEF CallsDone, Goto, configVars
  <2>7. CASE Return(t)
    BY <2>7 DEF Return, Release, Goto, configVars
  <2> QED BY <1>2, <2>1, <2>2, <2>3, <2>4, <2>5, <2>6, <2>7 DEF Logging
<1>3. ASSUME NEW t \in Admins, Configuring(t) PROVE TypeInv'
  <2> USE DEF Change, Goto, Take, Release, configVars, threadVars
  <2> t \in Threads
    OBVIOUS
  <2>1. ASSUME NEW a \in Appenders, NewAppender(t, a) PROVE TypeInv'
    BY <2>1 DEF NewAppender
  <2>2. ASSUME NEW c \in Cats, GetInstance(t, c) PROVE TypeInv'
    BY <2>2 DEF GetInstance, Above
  <2>3. ASSUME NEW c \in Cats, setAdditivity(t, c) PROVE TypeInv'
    BY <2>3 DEF setAdditivity
  <2>4. ASSUME NEW c \in Cats, RemoveAll(t, c) PROVE TypeInv'
    BY <2>4 DEF RemoveAll
  <2>5. ASSUME NEW c \in Cats, NEW a \in Appenders, RemoveAppender(t, c, a) PROVE TypeInv'
    BY <2>5 DEF RemoveAppender
  <2>6. ASSUME NEW c \in Cats, NEW a \in Appenders, NEW own \in BOOLEAN,
               AddAppender(t, c, a, own) PROVE TypeInv'
    BY <2>6 DEF AddAppender
  <2>7. CASE Delete(t)
    BY <2>7 DEF Delete
  <2>8. CASE Unregister(t)
    BY <2>8 DEF Unregister
  <2>9. CASE Removed(t)
    BY <2>9 DEF Removed
  <2>10. ASSUME NEW force \in BOOLEAN, Shutdown(t, force) PROVE TypeInv'
    BY <2>10 DEF Shutdown
  <2>11. CASE ShutdownCategory(t)
    BY <2>11 DEF ShutdownCategory
  <2>12. CASE ShutdownDone(t)
    BY <2>12 DEF ShutdownDone
  <2>13. CASE Collect(t)
    BY <2>13 DEF Collect, Registered
  <2>14. CASE AllDeleted(t)
    BY <2>14 DEF AllDeleted
  <2>15. ASSUME NEW all \in {"reopenAll", "closeAll"}, CallAll(t, all) PROVE TypeInv'
    BY <2>15 DEF CallAll, Registered
  <2>16. CASE CallNext(t)
    BY <2>16 DEF CallNext
  <2>17. CASE CallReturns(t)
    BY <2>17 DEF CallReturns
  <2>18. CASE AllCalled(t)
    BY <2>18 DEF AllCalled
  <2> HIDE DEF IInv, TypeInv, Change, Goto, Take, Release, configVars, threadVars
  <2> QED BY <1>3, <2>1, <2>2, <2>3, <2>4, <2>5, <2>6, <2>7, <2>8, <2>9, <2>10, <2>11, <2>12,
             <2>13, <2>14, <2>15, <2>16, <2>17, <2>18 DEF Configuring
<1> QED BY <1>1, <1>2, <1>3 DEF ThreadsNext

-----------------------------------------------------------------------------
(* One action at a time. *)

\* log(): the thread goes to wait for the mutex of the category, holding none.
LEMMA LogStep ==
  ASSUME IInv, TypeInv', NEW t \in Threads, NEW c \in Cats, Log(t, c)
  PROVE  IInv'
<1> USE ThreadsAssumption DEF Log, Goto, Take, Release, configVars, threadVars
<1>1. /\ \A l \in Locks : lock'[l] = lock[l] \/ (lock[l] \in {NoOne, t} /\ lock'[l] \in {NoOne, t})
      /\ \A u \in Threads \ {t} :
           /\ pc'[u] = pc[u] /\ cat'[u] = cat[u] /\ app'[u] = app[u] /\ todo'[u] = todo[u]
           /\ after'[u] = after[u]
      /\ \A d \in Cats : attached[d] \subseteq attached'[d] \/ lock[d] = t
  BY DEF IInv, TypeInv, Locks, HoldsInv
<1>2. HoldsInv(t)'
  BY DEF IInv, TypeInv, Locks, HoldsInv, Held
<1>3. CallInv(t)'
  BY DEF IInv, TypeInv, CallInv
<1> HIDE DEF Log, Goto, Take, Release, configVars, threadVars
<1> QED BY <1>1, <1>2, <1>3, StepInv

\* The mutex taken is further up than those the thread holds.
LEMMA LockCategoryStep ==
  ASSUME IInv, TypeInv', NEW t \in Threads, LockCategory(t)
  PROVE  IInv'
<1> USE ThreadsAssumption DEF LockCategory, Goto, Take, Release, configVars, threadVars
<1>1. /\ \A l \in Locks : lock'[l] = lock[l] \/ (lock[l] \in {NoOne, t} /\ lock'[l] \in {NoOne, t})
      /\ \A u \in Threads \ {t} :
           /\ pc'[u] = pc[u] /\ cat'[u] = cat[u] /\ app'[u] = app[u] /\ todo'[u] = todo[u]
           /\ after'[u] = after[u]
      /\ \A c \in Cats : attached[c] \subseteq attached'[c] \/ lock[c] = t
  BY DEF IInv, TypeInv, Locks, HoldsInv
<1>2. HoldsInv(t)'
  BY DEF IInv, TypeInv, Locks, HoldsInv, Held
<1>3. CallInv(t)'
  BY DEF IInv, TypeInv, CallInv
<1> HIDE DEF LockCategory, Goto, Take, Release, configVars, threadVars
<1> QED BY <1>1, <1>2, <1>3, StepInv

\* The appender that is called is attached to the category.
LEMMA DoAppendStep ==
  ASSUME IInv, TypeInv', NEW t \in Threads, DoAppend(t)
  PROVE  IInv'
<1> USE ThreadsAssumption DEF DoAppend, Goto, Take, Release, configVars, threadVars
<1>1. /\ \A l \in Locks : lock'[l] = lock[l] \/ (lock[l] \in {NoOne, t} /\ lock'[l] \in {NoOne, t})
      /\ \A u \in Threads \ {t} :
           /\ pc'[u] = pc[u] /\ cat'[u] = cat[u] /\ app'[u] = app[u] /\ todo'[u] = todo[u]
           /\ after'[u] = after[u]
      /\ \A c \in Cats : attached[c] \subseteq attached'[c] \/ lock[c] = t
  BY DEF IInv, TypeInv, Locks, HoldsInv
<1>2. HoldsInv(t)'
  <2>1. /\ pc[t] = "call" /\ pc'[t] = "inside" /\ UNCHANGED <<lock, cat, after>>
    BY DEF IInv, TypeInv
  <2> HIDE DEF DoAppend, Goto
  <2> QED BY <2>1 DEF IInv, HoldsInv, Held
<1>3. CallInv(t)'
  <2>1. PICK a \in todo[t] : /\ app' = [app EXCEPT ![t] = a]
                             /\ todo' = [todo EXCEPT ![t] = @ \ {a}]
    OBVIOUS
  <2>2. /\ app'[t] = a /\ todo'[t] \subseteq todo[t] /\ cat' = cat /\ attached' = attached
        /\ pc'[t] = "inside" /\ pc[t] = "call"
    BY <2>1 DEF IInv, TypeInv
  <2> HIDE DEF DoAppend, Goto
  <2> QED BY <2>1, <2>2 DEF IInv, CallInv
<1> HIDE DEF DoAppend, Goto, Take, Release, configVars, threadVars
<1> QED BY <1>1, <1>2, <1>3, StepInv

\* The appender returns.
LEMMA AppendedStep ==
  ASSUME IInv, TypeInv', NEW t \in Threads, Appended(t)
  PROVE  IInv'
<1> USE ThreadsAssumption DEF Appended, Goto, Take, Release, configVars, threadVars
<1>1. /\ \A l \in Locks : lock'[l] = lock[l] \/ (lock[l] \in {NoOne, t} /\ lock'[l] \in {NoOne, t})
      /\ \A u \in Threads \ {t} :
           /\ pc'[u] = pc[u] /\ cat'[u] = cat[u] /\ app'[u] = app[u] /\ todo'[u] = todo[u]
           /\ after'[u] = after[u]
      /\ \A c \in Cats : attached[c] \subseteq attached'[c] \/ lock[c] = t
  BY DEF IInv, TypeInv, Locks, HoldsInv
<1>2. HoldsInv(t)'
  BY DEF IInv, TypeInv, Locks, HoldsInv, Held
<1>3. CallInv(t)'
  BY DEF IInv, TypeInv, CallInv
<1> HIDE DEF Appended, Goto, Take, Release, configVars, threadVars
<1> QED BY <1>1, <1>2, <1>3, StepInv

\* The parent's mutex is further up than the child's.
LEMMA CallParentStep ==
  ASSUME IInv, TypeInv', NEW t \in Threads, CallParent(t)
  PROVE  IInv'
<1> USE ThreadsAssumption DEF CallParent, Ascends, Goto, Take, Release, configVars, threadVars
<1>1. /\ \A l \in Locks : lock'[l] = lock[l] \/ (lock[l] \in {NoOne, t} /\ lock'[l] \in {NoOne, t})
      /\ \A u \in Threads \ {t} :
           /\ pc'[u] = pc[u] /\ cat'[u] = cat[u] /\ app'[u] = app[u] /\ todo'[u] = todo[u]
           /\ after'[u] = after[u]
      /\ \A c \in Cats : attached[c] \subseteq attached'[c] \/ lock[c] = t
  BY DEF IInv, TypeInv, Locks, HoldsInv
<1>2. HoldsInv(t)'
  BY DEF IInv, TypeInv, Locks, HoldsInv, Held
<1>3. CallInv(t)'
  BY DEF IInv, TypeInv, CallInv
<1> HIDE DEF CallParent, Ascends, Goto, Take, Release, configVars, threadVars
<1> QED BY <1>1, <1>2, <1>3, StepInv

\* The last category has been called.
LEMMA CallsDoneStep ==
  ASSUME IInv, TypeInv', NEW t \in Threads, CallsDone(t)
  PROVE  IInv'
<1> USE ThreadsAssumption DEF CallsDone, Goto, Take, Release, configVars, threadVars
<1>1. /\ \A l \in Locks : lock'[l] = lock[l] \/ (lock[l] \in {NoOne, t} /\ lock'[l] \in {NoOne, t})
      /\ \A u \in Threads \ {t} :
           /\ pc'[u] = pc[u] /\ cat'[u] = cat[u] /\ app'[u] = app[u] /\ todo'[u] = todo[u]
           /\ after'[u] = after[u]
      /\ \A c \in Cats : attached[c] \subseteq attached'[c] \/ lock[c] = t
  BY DEF IInv, TypeInv, Locks, HoldsInv
<1>2. HoldsInv(t)'
  BY DEF IInv, TypeInv, Locks, HoldsInv, Held
<1>3. CallInv(t)'
  BY DEF IInv, TypeInv, CallInv
<1> HIDE DEF CallsDone, Goto, Take, Release, configVars, threadVars
<1> QED BY <1>1, <1>2, <1>3, StepInv

\* The mutexes are given back from the top down.
LEMMA ReturnStep ==
  ASSUME IInv, TypeInv', NEW t \in Threads, Return(t)
  PROVE  IInv'
<1> USE ThreadsAssumption DEF Return, Goto, Take, Release, configVars, threadVars
<1>1. /\ \A l \in Locks : lock'[l] = lock[l] \/ (lock[l] \in {NoOne, t} /\ lock'[l] \in {NoOne, t})
      /\ \A u \in Threads \ {t} :
           /\ pc'[u] = pc[u] /\ cat'[u] = cat[u] /\ app'[u] = app[u] /\ todo'[u] = todo[u]
           /\ after'[u] = after[u]
      /\ \A c \in Cats : attached[c] \subseteq attached'[c] \/ lock[c] = t
  BY DEF IInv, TypeInv, Locks, HoldsInv
<1>2. HoldsInv(t)'
  BY DEF IInv, TypeInv, Locks, HoldsInv, Held
<1>3. CallInv(t)'
  BY DEF IInv, TypeInv, CallInv
<1> HIDE DEF Return, Goto, Take, Release, configVars, threadVars
<1> QED BY <1>1, <1>2, <1>3, StepInv

\* A constructor attaches and detaches nothing.
LEMMA NewAppenderStep ==
  ASSUME IInv, TypeInv', NEW t \in Threads, NEW a \in Appenders, NewAppender(t, a)
  PROVE  IInv'
<1> USE ThreadsAssumption DEF NewAppender, Change, Goto, Take, Release, configVars, threadVars
<1>1. /\ \A l \in Locks : lock'[l] = lock[l] \/ (lock[l] \in {NoOne, t} /\ lock'[l] \in {NoOne, t})
      /\ \A u \in Threads \ {t} :
           /\ pc'[u] = pc[u] /\ cat'[u] = cat[u] /\ app'[u] = app[u] /\ todo'[u] = todo[u]
           /\ after'[u] = after[u]
      /\ \A c \in Cats : attached[c] \subseteq attached'[c] \/ lock[c] = t
  BY DEF IInv, TypeInv, Locks, HoldsInv
<1>2. HoldsInv(t)'
  BY DEF IInv, TypeInv, Locks, HoldsInv, Held
<1>3. CallInv(t)'
  BY DEF IInv, TypeInv, CallInv
<1> HIDE DEF NewAppender, Change, Goto, Take, Release, configVars, threadVars
<1> QED BY <1>1, <1>2, <1>3, StepInv

\* getInstance() makes categories and holds no mutex when it is done.
LEMMA GetInstanceStep ==
  ASSUME IInv, TypeInv', NEW t \in Threads, NEW c \in Cats, GetInstance(t, c)
  PROVE  IInv'
<1> USE ThreadsAssumption DEF GetInstance, Change, Goto, Take, Release, configVars, threadVars
<1>1. /\ \A l \in Locks : lock'[l] = lock[l] \/ (lock[l] \in {NoOne, t} /\ lock'[l] \in {NoOne, t})
      /\ \A u \in Threads \ {t} :
           /\ pc'[u] = pc[u] /\ cat'[u] = cat[u] /\ app'[u] = app[u] /\ todo'[u] = todo[u]
           /\ after'[u] = after[u]
      /\ \A d \in Cats : attached[d] \subseteq attached'[d] \/ lock[d] = t
  BY DEF IInv, TypeInv, Locks, HoldsInv
<1>2. HoldsInv(t)'
  BY DEF IInv, TypeInv, Locks, HoldsInv, Held
<1>3. CallInv(t)'
  BY DEF IInv, TypeInv, CallInv
<1> HIDE DEF GetInstance, Change, Goto, Take, Release, configVars, threadVars
<1> QED BY <1>1, <1>2, <1>3, StepInv

\* setAdditivity() takes no mutex.
LEMMA AdditivityStep ==
  ASSUME IInv, TypeInv', NEW t \in Threads, NEW c \in Cats, setAdditivity(t, c)
  PROVE  IInv'
<1> USE ThreadsAssumption DEF setAdditivity, Change, Goto, Take, Release, configVars, threadVars
<1>1. /\ \A l \in Locks : lock'[l] = lock[l] \/ (lock[l] \in {NoOne, t} /\ lock'[l] \in {NoOne, t})
      /\ \A u \in Threads \ {t} :
           /\ pc'[u] = pc[u] /\ cat'[u] = cat[u] /\ app'[u] = app[u] /\ todo'[u] = todo[u]
           /\ after'[u] = after[u]
      /\ \A d \in Cats : attached[d] \subseteq attached'[d] \/ lock[d] = t
  BY DEF IInv, TypeInv, Locks, HoldsInv
<1>2. HoldsInv(t)'
  BY DEF IInv, TypeInv, Locks, HoldsInv, Held
<1>3. CallInv(t)'
  BY DEF IInv, TypeInv, CallInv
<1> HIDE DEF setAdditivity, Change, Goto, Take, Release, configVars, threadVars
<1> QED BY <1>1, <1>2, <1>3, StepInv

\* removeAllAppenders() takes the category's mutex, first.
LEMMA RemoveAllStep ==
  ASSUME IInv, TypeInv', NEW t \in Threads, NEW c \in Cats, RemoveAll(t, c)
  PROVE  IInv'
<1> USE ThreadsAssumption DEF RemoveAll, Change, Goto, Take, Release, configVars, threadVars
<1>1. /\ \A l \in Locks : lock'[l] = lock[l] \/ (lock[l] \in {NoOne, t} /\ lock'[l] \in {NoOne, t})
      /\ \A u \in Threads \ {t} :
           /\ pc'[u] = pc[u] /\ cat'[u] = cat[u] /\ app'[u] = app[u] /\ todo'[u] = todo[u]
           /\ after'[u] = after[u]
      /\ \A d \in Cats : attached[d] \subseteq attached'[d] \/ lock[d] = t
  BY DEF IInv, TypeInv, Locks, HoldsInv
<1>2. HoldsInv(t)'
  BY DEF IInv, TypeInv, Locks, HoldsInv, Held
<1>3. CallInv(t)'
  BY DEF IInv, TypeInv, CallInv
<1> HIDE DEF RemoveAll, Change, Goto, Take, Release, configVars, threadVars
<1> QED BY <1>1, <1>2, <1>3, StepInv

\* So does removeAppender().
LEMMA RemoveAppenderStep ==
  ASSUME IInv, TypeInv', NEW t \in Threads, NEW c \in Cats, NEW a \in Appenders, RemoveAppender(t, c, a)
  PROVE  IInv'
<1> USE ThreadsAssumption DEF RemoveAppender, Change, Goto, Take, Release, configVars, threadVars
<1>1. /\ \A l \in Locks : lock'[l] = lock[l] \/ (lock[l] \in {NoOne, t} /\ lock'[l] \in {NoOne, t})
      /\ \A u \in Threads \ {t} :
           /\ pc'[u] = pc[u] /\ cat'[u] = cat[u] /\ app'[u] = app[u] /\ todo'[u] = todo[u]
           /\ after'[u] = after[u]
      /\ \A d \in Cats : attached[d] \subseteq attached'[d] \/ lock[d] = t
  BY DEF IInv, TypeInv, Locks, HoldsInv
<1>2. HoldsInv(t)'
  BY DEF IInv, TypeInv, Locks, HoldsInv, Held
<1>3. CallInv(t)'
  BY DEF IInv, TypeInv, CallInv
<1> HIDE DEF RemoveAppender, Change, Goto, Take, Release, configVars, threadVars
<1> QED BY <1>1, <1>2, <1>3, StepInv

\* addAppender() only adds, to a category nobody is calling.
LEMMA AddAppenderStep ==
  ASSUME IInv, TypeInv', NEW t \in Threads, NEW c \in Cats, NEW a \in Appenders, NEW own \in BOOLEAN, AddAppender(t, c, a, own)
  PROVE  IInv'
<1> USE ThreadsAssumption DEF AddAppender, Change, Goto, Take, Release, configVars, threadVars
<1>1. /\ \A l \in Locks : lock'[l] = lock[l] \/ (lock[l] \in {NoOne, t} /\ lock'[l] \in {NoOne, t})
      /\ \A u \in Threads \ {t} :
           /\ pc'[u] = pc[u] /\ cat'[u] = cat[u] /\ app'[u] = app[u] /\ todo'[u] = todo[u]
           /\ after'[u] = after[u]
      /\ \A d \in Cats : attached[d] \subseteq attached'[d] \/ lock[d] = t
  BY DEF IInv, TypeInv, Locks, HoldsInv
<1>2. HoldsInv(t)'
  BY DEF IInv, TypeInv, Locks, HoldsInv, Held
<1>3. CallInv(t)'
  BY DEF IInv, TypeInv, CallInv
<1> HIDE DEF AddAppender, Change, Goto, Take, Release, configVars, threadVars
<1> QED BY <1>1, <1>2, <1>3, StepInv

\* A destructor begins under the mutex of the category, if it has an owner.
LEMMA DeleteStep ==
  ASSUME IInv, TypeInv', NEW t \in Threads, Delete(t)
  PROVE  IInv'
<1> USE ThreadsAssumption DEF Delete, Goto, Take, Release, configVars, threadVars
<1>1. /\ \A l \in Locks : lock'[l] = lock[l] \/ (lock[l] \in {NoOne, t} /\ lock'[l] \in {NoOne, t})
      /\ \A u \in Threads \ {t} :
           /\ pc'[u] = pc[u] /\ cat'[u] = cat[u] /\ app'[u] = app[u] /\ todo'[u] = todo[u]
           /\ after'[u] = after[u]
      /\ \A c \in Cats : attached[c] \subseteq attached'[c] \/ lock[c] = t
  BY DEF IInv, TypeInv, Locks, HoldsInv
<1>2. HoldsInv(t)'
  BY DEF IInv, TypeInv, Locks, HoldsInv, Held
<1>3. CallInv(t)'
  BY DEF IInv, TypeInv, CallInv
<1> HIDE DEF Delete, Goto, Take, Release, configVars, threadVars
<1> QED BY <1>1, <1>2, <1>3, StepInv

\* The mutex of the registry is taken and given back in the destructor.
LEMMA UnregisterStep ==
  ASSUME IInv, TypeInv', NEW t \in Threads, Unregister(t)
  PROVE  IInv'
<1> USE ThreadsAssumption DEF Unregister, Goto, Take, Release, configVars, threadVars
<1>1. /\ \A l \in Locks : lock'[l] = lock[l] \/ (lock[l] \in {NoOne, t} /\ lock'[l] \in {NoOne, t})
      /\ \A u \in Threads \ {t} :
           /\ pc'[u] = pc[u] /\ cat'[u] = cat[u] /\ app'[u] = app[u] /\ todo'[u] = todo[u]
           /\ after'[u] = after[u]
      /\ \A c \in Cats : attached[c] \subseteq attached'[c] \/ lock[c] = t
  BY DEF IInv, TypeInv, Locks, HoldsInv
<1>2. HoldsInv(t)'
  <2>1. /\ pc[t] = "unregister" /\ pc' = [pc EXCEPT ![t] = after[t]] /\ pc \in [Threads -> Places]
        /\ UNCHANGED <<lock, cat, after>>
    BY DEF IInv, TypeInv
  <2>2. pc'[t] = after[t] /\ Held(t)' = Held(t)
    BY <2>1 DEF Held
  <2>3. /\ after[t] \in {"removeAppender", "removeAll", "deleteAll"}
        /\ after[t] = "deleteAll" => Held(t) = {}
        /\ after[t] # "deleteAll" => lock[cat[t]] = t /\ Held(t) \subseteq {cat[t], "maintainer"}
    BY <2>1 DEF IInv, HoldsInv
  <2> HIDE DEF Unregister, Goto
  <2> QED BY <2>1, <2>2, <2>3 DEF HoldsInv
<1>3. CallInv(t)'
  <2>1. after[t] \in {"removeAppender", "removeAll", "deleteAll"} /\ pc'[t] = after[t]
    BY DEF IInv, TypeInv, HoldsInv
  <2> HIDE DEF Unregister, Goto
  <2> QED BY <2>1 DEF CallInv
<1> HIDE DEF Unregister, Goto, Take, Release, configVars, threadVars
<1> QED BY <1>1, <1>2, <1>3, StepInv

\* Only the thread with the mutex takes appenders out of a category.
LEMMA RemovedStep ==
  ASSUME IInv, TypeInv', NEW t \in Threads, Removed(t)
  PROVE  IInv'
<1> USE ThreadsAssumption DEF Removed, Goto, Take, Release, configVars, threadVars
<1>1. /\ \A l \in Locks : lock'[l] = lock[l] \/ (lock[l] \in {NoOne, t} /\ lock'[l] \in {NoOne, t})
      /\ \A u \in Threads \ {t} :
           /\ pc'[u] = pc[u] /\ cat'[u] = cat[u] /\ app'[u] = app[u] /\ todo'[u] = todo[u]
           /\ after'[u] = after[u]
      /\ \A c \in Cats : attached[c] \subseteq attached'[c] \/ lock[c] = t
  BY DEF IInv, TypeInv, Locks, HoldsInv
<1>2. HoldsInv(t)'
  BY DEF IInv, TypeInv, Locks, HoldsInv, Held
<1>3. CallInv(t)'
  BY DEF IInv, TypeInv, CallInv
<1> HIDE DEF Removed, Goto, Take, Release, configVars, threadVars
<1> QED BY <1>1, <1>2, <1>3, StepInv

\* shutdown() takes the mutex of the hierarchy, holding none.
LEMMA ShutdownStep ==
  ASSUME IInv, TypeInv', NEW t \in Threads, NEW force \in BOOLEAN, Shutdown(t, force)
  PROVE  IInv'
<1> USE ThreadsAssumption DEF Shutdown, Change, Goto, Take, Release, configVars, threadVars
<1>1. /\ \A l \in Locks : lock'[l] = lock[l] \/ (lock[l] \in {NoOne, t} /\ lock'[l] \in {NoOne, t})
      /\ \A u \in Threads \ {t} :
           /\ pc'[u] = pc[u] /\ cat'[u] = cat[u] /\ app'[u] = app[u] /\ todo'[u] = todo[u]
           /\ after'[u] = after[u]
      /\ \A c \in Cats : attached[c] \subseteq attached'[c] \/ lock[c] = t
  BY DEF IInv, TypeInv, Locks, HoldsInv
<1>2. HoldsInv(t)'
  BY DEF IInv, TypeInv, Locks, HoldsInv, Held
<1>3. CallInv(t)'
  BY DEF IInv, TypeInv, CallInv
<1> HIDE DEF Shutdown, Change, Goto, Take, Release, configVars, threadVars
<1> QED BY <1>1, <1>2, <1>3, StepInv

\* A category's mutex is inside that of the hierarchy.
LEMMA ShutdownCategoryStep ==
  ASSUME IInv, TypeInv', NEW t \in Threads, ShutdownCategory(t)
  PROVE  IInv'
<1> USE ThreadsAssumption DEF ShutdownCategory, Goto, Take, Release, configVars, threadVars
<1>1. /\ \A l \in Locks : lock'[l] = lock[l] \/ (lock[l] \in {NoOne, t} /\ lock'[l] \in {NoOne, t})
      /\ \A u \in Threads \ {t} :
           /\ pc'[u] = pc[u] /\ cat'[u] = cat[u] /\ app'[u] = app[u] /\ todo'[u] = todo[u]
           /\ after'[u] = after[u]
      /\ \A c \in Cats : attached[c] \subseteq attached'[c] \/ lock[c] = t
  BY DEF IInv, TypeInv, Locks, HoldsInv
<1>2. HoldsInv(t)'
  BY DEF IInv, TypeInv, Locks, HoldsInv, Held
<1>3. CallInv(t)'
  BY DEF IInv, TypeInv, CallInv
<1> HIDE DEF ShutdownCategory, Goto, Take, Release, configVars, threadVars
<1> QED BY <1>1, <1>2, <1>3, StepInv

\* The mutex of the hierarchy is given back before appenders are collected.
LEMMA ShutdownDoneStep ==
  ASSUME IInv, TypeInv', NEW t \in Threads, ShutdownDone(t)
  PROVE  IInv'
<1> USE ThreadsAssumption DEF ShutdownDone, Goto, Take, Release, configVars, threadVars
<1>1. /\ \A l \in Locks : lock'[l] = lock[l] \/ (lock[l] \in {NoOne, t} /\ lock'[l] \in {NoOne, t})
      /\ \A u \in Threads \ {t} :
           /\ pc'[u] = pc[u] /\ cat'[u] = cat[u] /\ app'[u] = app[u] /\ todo'[u] = todo[u]
           /\ after'[u] = after[u]
      /\ \A c \in Cats : attached[c] \subseteq attached'[c] \/ lock[c] = t
  BY DEF IInv, TypeInv, Locks, HoldsInv, Held
<1>2. HoldsInv(t)'
  BY DEF IInv, TypeInv, Locks, HoldsInv, Held
<1>3. CallInv(t)'
  BY DEF IInv, TypeInv, CallInv
<1> HIDE DEF ShutdownDone, Goto, Take, Release, configVars, threadVars
<1> QED BY <1>1, <1>2, <1>3, StepInv

\* _deleteAllAppenders() holds no mutex when it begins to delete.
LEMMA CollectStep ==
  ASSUME IInv, TypeInv', NEW t \in Threads, Collect(t)
  PROVE  IInv'
<1> USE ThreadsAssumption DEF Collect, Goto, Take, Release, configVars, threadVars
<1>1. /\ \A l \in Locks : lock'[l] = lock[l] \/ (lock[l] \in {NoOne, t} /\ lock'[l] \in {NoOne, t})
      /\ \A u \in Threads \ {t} :
           /\ pc'[u] = pc[u] /\ cat'[u] = cat[u] /\ app'[u] = app[u] /\ todo'[u] = todo[u]
           /\ after'[u] = after[u]
      /\ \A c \in Cats : attached[c] \subseteq attached'[c] \/ lock[c] = t
  BY DEF IInv, TypeInv, Locks, HoldsInv
<1>2. HoldsInv(t)'
  BY DEF IInv, TypeInv, Locks, HoldsInv, Held
<1>3. CallInv(t)'
  BY DEF IInv, TypeInv, CallInv
<1> HIDE DEF Collect, Goto, Take, Release, configVars, threadVars
<1> QED BY <1>1, <1>2, <1>3, StepInv

\* _deleteAllAppenders() ends.
LEMMA AllDeletedStep ==
  ASSUME IInv, TypeInv', NEW t \in Threads, AllDeleted(t)
  PROVE  IInv'
<1> USE ThreadsAssumption DEF AllDeleted, Goto, Take, Release, configVars, threadVars
<1>1. /\ \A l \in Locks : lock'[l] = lock[l] \/ (lock[l] \in {NoOne, t} /\ lock'[l] \in {NoOne, t})
      /\ \A u \in Threads \ {t} :
           /\ pc'[u] = pc[u] /\ cat'[u] = cat[u] /\ app'[u] = app[u] /\ todo'[u] = todo[u]
           /\ after'[u] = after[u]
      /\ \A c \in Cats : attached[c] \subseteq attached'[c] \/ lock[c] = t
  BY DEF IInv, TypeInv, Locks, HoldsInv
<1>2. HoldsInv(t)'
  BY DEF IInv, TypeInv, Locks, HoldsInv, Held
<1>3. CallInv(t)'
  BY DEF IInv, TypeInv, CallInv
<1> HIDE DEF AllDeleted, Goto, Take, Release, configVars, threadVars
<1> QED BY <1>1, <1>2, <1>3, StepInv

\* reopenAll() holds the mutex of the registry alone.
LEMMA CallAllStep ==
  ASSUME IInv, TypeInv', NEW t \in Threads, NEW all \in {"reopenAll", "closeAll"}, CallAll(t, all)
  PROVE  IInv'
<1> USE ThreadsAssumption DEF CallAll, Change, Goto, Take, Release, configVars, threadVars
<1>1. /\ \A l \in Locks : lock'[l] = lock[l] \/ (lock[l] \in {NoOne, t} /\ lock'[l] \in {NoOne, t})
      /\ \A u \in Threads \ {t} :
           /\ pc'[u] = pc[u] /\ cat'[u] = cat[u] /\ app'[u] = app[u] /\ todo'[u] = todo[u]
           /\ after'[u] = after[u]
      /\ \A c \in Cats : attached[c] \subseteq attached'[c] \/ lock[c] = t
  BY DEF IInv, TypeInv, Locks, HoldsInv
<1>2. HoldsInv(t)'
  BY DEF IInv, TypeInv, Locks, HoldsInv, Held
<1>3. CallInv(t)'
  BY DEF IInv, TypeInv, CallInv
<1> HIDE DEF CallAll, Change, Goto, Take, Release, configVars, threadVars
<1> QED BY <1>1, <1>2, <1>3, StepInv

\* Each appender is called under it.
LEMMA CallNextStep ==
  ASSUME IInv, TypeInv', NEW t \in Threads, CallNext(t)
  PROVE  IInv'
<1> USE ThreadsAssumption DEF CallNext, Goto, Take, Release, configVars, threadVars
<1>1. /\ \A l \in Locks : lock'[l] = lock[l] \/ (lock[l] \in {NoOne, t} /\ lock'[l] \in {NoOne, t})
      /\ \A u \in Threads \ {t} :
           /\ pc'[u] = pc[u] /\ cat'[u] = cat[u] /\ app'[u] = app[u] /\ todo'[u] = todo[u]
           /\ after'[u] = after[u]
      /\ \A c \in Cats : attached[c] \subseteq attached'[c] \/ lock[c] = t
  BY DEF IInv, TypeInv, Locks, HoldsInv
<1>2. HoldsInv(t)'
  BY DEF IInv, TypeInv, Locks, HoldsInv, Held
<1>3. CallInv(t)'
  BY DEF IInv, TypeInv, CallInv
<1> HIDE DEF CallNext, Goto, Take, Release, configVars, threadVars
<1> QED BY <1>1, <1>2, <1>3, StepInv

\* The call returns to it.
LEMMA CallReturnsStep ==
  ASSUME IInv, TypeInv', NEW t \in Threads, CallReturns(t)
  PROVE  IInv'
<1> USE ThreadsAssumption DEF CallReturns, Goto, Take, Release, configVars, threadVars
<1>1. /\ \A l \in Locks : lock'[l] = lock[l] \/ (lock[l] \in {NoOne, t} /\ lock'[l] \in {NoOne, t})
      /\ \A u \in Threads \ {t} :
           /\ pc'[u] = pc[u] /\ cat'[u] = cat[u] /\ app'[u] = app[u] /\ todo'[u] = todo[u]
           /\ after'[u] = after[u]
      /\ \A c \in Cats : attached[c] \subseteq attached'[c] \/ lock[c] = t
  BY DEF IInv, TypeInv, Locks, HoldsInv
<1>2. HoldsInv(t)'
  BY DEF IInv, TypeInv, Locks, HoldsInv, Held
<1>3. CallInv(t)'
  BY DEF IInv, TypeInv, CallInv
<1> HIDE DEF CallReturns, Goto, Take, Release, configVars, threadVars
<1> QED BY <1>1, <1>2, <1>3, StepInv

\* Then it is given back.
LEMMA AllCalledStep ==
  ASSUME IInv, TypeInv', NEW t \in Threads, AllCalled(t)
  PROVE  IInv'
<1> USE ThreadsAssumption DEF AllCalled, Goto, Take, Release, configVars, threadVars
<1>1. /\ \A l \in Locks : lock'[l] = lock[l] \/ (lock[l] \in {NoOne, t} /\ lock'[l] \in {NoOne, t})
      /\ \A u \in Threads \ {t} :
           /\ pc'[u] = pc[u] /\ cat'[u] = cat[u] /\ app'[u] = app[u] /\ todo'[u] = todo[u]
           /\ after'[u] = after[u]
      /\ \A c \in Cats : attached[c] \subseteq attached'[c] \/ lock[c] = t
  BY DEF IInv, TypeInv, Locks, HoldsInv, Held
<1>2. HoldsInv(t)'
  BY DEF IInv, TypeInv, Locks, HoldsInv, Held
<1>3. CallInv(t)'
  BY DEF IInv, TypeInv, CallInv
<1> HIDE DEF AllCalled, Goto, Take, Release, configVars, threadVars
<1> QED BY <1>1, <1>2, <1>3, StepInv

\* All mutexes are free.
LEMMA ThreadsInitInv == ThreadsInit => IInv
BY ThreadsAssumption DEF ThreadsInit, IInv, TypeInv, HoldsInv, CallInv, Held, Locks, Places

\* Whoever steps, threads hold what their place says.
LEMMA ThreadsNextInv == IInv /\ [ThreadsNext]_logVars => IInv'
<1> SUFFICES ASSUME IInv, [ThreadsNext]_logVars PROVE IInv'
  OBVIOUS
<1>1. TypeInv'
  BY TypeStep
<1>2. CASE UNCHANGED logVars
  BY <1>2 DEF logVars, threadVars, configVars, IInv, TypeInv, HoldsInv, CallInv, Held
<1>3. ASSUME NEW t \in Threads, Logging(t) PROVE IInv'
  BY <1>1, <1>3, LogStep, LockCategoryStep, DoAppendStep, AppendedStep, CallParentStep,
     CallsDoneStep, ReturnStep DEF Logging
<1>4. ASSUME NEW t \in Admins, Configuring(t) PROVE IInv'
  <2>1. t \in Threads
    BY ThreadsAssumption
  <2> QED BY <1>1, <1>4, <2>1, NewAppenderStep, GetInstanceStep, AdditivityStep, RemoveAllStep,
             RemoveAppenderStep, AddAppenderStep, DeleteStep, UnregisterStep, RemovedStep,
             ShutdownStep, ShutdownCategoryStep, ShutdownDoneStep, CollectStep, AllDeletedStep,
             CallAllStep, CallNextStep, CallReturnsStep, AllCalledStep DEF Configuring
<1> QED BY <1>2, <1>3, <1>4 DEF ThreadsNext

-----------------------------------------------------------------------------

\* What a thread waits for is inside all it holds.
LEMMA HoldsGivesOrder == IInv => LockOrder
<1> SUFFICES ASSUME IInv, NEW t \in Threads, NEW l \in Held(t), NEW m \in Wanted(t)
             PROVE  Outside(l, m)
  BY DEF LockOrder
<1> USE ThreadsAssumption DEF Outside
<1>1. l \in Locks /\ cat[t] \in Cats /\ left[t] \subseteq Cats
  BY DEF IInv, TypeInv, Held
<1>2. CASE pc[t] = "lock"
  BY <1>1, <1>2 DEF IInv, HoldsInv, Wanted
<1>3. CASE pc[t] \in {"unregister", "collect"}
  BY <1>1, <1>3 DEF IInv, HoldsInv, Wanted
<1>4. CASE pc[t] = "shutdown"
  BY <1>1, <1>4 DEF IInv, HoldsInv, Wanted
<1> QED BY <1>2, <1>3, <1>4 DEF Wanted

\* For any hierarchy, any number of threads, appenders and changes: the mutexes
\* are taken in one order, so that the threads cannot wait for one another in a
\* circle.
THEOREM MutexesInOrder == ThreadsSpec => []LockOrder
BY ThreadsInitInv, ThreadsNextInv, HoldsGivesOrder, PTL DEF ThreadsSpec

\* Each thread that is in an appender's doAppend() holds the mutex of a category
\* of its own to which the appender is attached; one in its reopen() or close()
\* holds that of the registry.
LEMMA CallGivesSerialized ==
  ASSUME IsFiniteSet(Cats), IInv
  PROVE  Serialized
<1> SUFFICES ASSUME NEW a \in Appenders
             PROVE  /\ Cardinality({t \in Threads : Calls(t, a) /\ pc[t] = "inside"})
                         <= Cardinality({c \in Cats : a \in attached[c]})
                    /\ Cardinality({t \in Threads : Calls(t, a)})
                         <= Cardinality({c \in Cats : a \in attached[c]}) + 1
  BY DEF Serialized
<1> DEFINE T == {t \in Threads : Calls(t, a) /\ pc[t] = "inside"}
           U == {t \in Threads : Calls(t, a)}
           C == {c \in Cats : a \in attached[c]}
           f == [t \in T |-> cat[t]]
           g == [t \in U |-> IF pc[t] = "inside" THEN cat[t] ELSE "map"]
<1>1. IsFiniteSet(C) /\ "map" \notin C
  <2>1. IsFiniteSet(C)
    BY FS_Subset
  <2> QED BY <2>1, ThreadsAssumption
<1>2. \A t \in T : cat[t] \in C /\ lock[cat[t]] = t
  BY DEF IInv, TypeInv, HoldsInv, CallInv, Calls
<1>3. \A t \in U : t \in T \/ lock["map"] = t
  <2>1. \A t \in U : pc[t] \in {"reopen", "close"} => Held(t) = {"map"}
    BY DEF IInv, HoldsInv
  <2> QED BY <2>1 DEF Held, Calls
<1>4. f \in Injection(T, C)
  BY <1>2 DEF Injection, IsInjective
<1>5. g \in Injection(U, C \cup {"map"})
  <2>1. \A t \in U : g[t] \in C \cup {"map"} /\ lock[g[t]] = t
    BY <1>2, <1>3
  <2> QED BY <2>1 DEF Injection, IsInjective
<1> HIDE DEF T, U, C, f, g
<1>6. Cardinality(T) <= Cardinality(C)
  BY <1>1, <1>4, FS_Injection
<1>7. IsFiniteSet(C \cup {"map"}) /\ Cardinality(C \cup {"map"}) = Cardinality(C) + 1
  BY <1>1, FS_AddElement
<1>8. Cardinality(U) <= Cardinality(C \cup {"map"})
  BY <1>5, <1>7, FS_Injection
<1> QED BY <1>6, <1>7, <1>8 DEF T, U, C

\* An appender that is attached to one category is in one doAppend() at a time,
\* and besides in one reopen() or close() at most, with which it may overlap.
THEOREM AppendersSerialized ==
  ASSUME IsFiniteSet(Cats)
  PROVE  ThreadsSpec => []Serialized
<1>1. IInv => Serialized
  BY CallGivesSerialized
<1> QED BY <1>1, ThreadsInitInv, ThreadsNextInv, PTL DEF ThreadsSpec

-----------------------------------------------------------------------------
(* The order of events. *)

LogPlaces == {"lock", "call", "inside", "return"}

\* The category a thread's event was logged to.
Start(t) == events[event[t]]

\* A thread is logging an event: it waits for the mutex of the event's category,
\* or it holds it, and then whatever else it holds is further up.
Waiting(t) == pc[t] = "lock" /\ cat[t] = Start(t) /\ Held(t) = {}
Active(t) ==
  /\ pc[t] \in LogPlaces /\ lock[Start(t)] = t
  /\ \A l \in Held(t) : l = Start(t) \/ Depth[l] < Depth[Start(t)]

\* Nothing of the same category comes after an event.
NewestOf(f) ==
  \A a \in Appenders : \A i, j \in DOMAIN out[a] :
    i < j /\ out[a][i] = f /\ events[out[a][j]] = events[f] => out[a][j] = f

OrderInv ==
  /\ events \in Seq(Cats)
  /\ event \in [Threads -> Nat]
  /\ out \in [Appenders -> Seq(1 .. Len(events))]
  /\ \A t \in Threads : pc[t] \in LogPlaces =>
       /\ event[t] \in 1 .. Len(events)
       /\ Waiting(t) \/ Active(t)
       /\ Waiting(t) => \A a \in Appenders : \A i \in DOMAIN out[a] : out[a][i] # event[t]
       /\ Active(t) => NewestOf(event[t])
  /\ \A t, u \in Threads :
       pc[t] \in LogPlaces /\ pc[u] \in LogPlaces /\ event[t] = event[u] => t = u
  /\ SameOrder

\* A thread that configures is not logging, and takes no mutex from one that is.
LEMMA ConfigQuiet ==
  ASSUME IInv, NEW t \in Threads, Configuring(t)
  PROVE  /\ UNCHANGED <<event, events, out>>
         /\ \A l \in Locks : lock'[l] = lock[l] \/ (lock[l] \in {NoOne, t} /\ lock'[l] \in {NoOne, t})
         /\ \A u \in Threads \ {t} : pc'[u] = pc[u] /\ cat'[u] = cat[u]
         /\ pc[t] \notin LogPlaces /\ pc'[t] \notin LogPlaces
<1> DEFINE Goal == /\ UNCHANGED <<event, events, out>>
                   /\ \A l \in Locks : \/ lock'[l] = lock[l]
                                       \/ lock[l] \in {NoOne, t} /\ lock'[l] \in {NoOne, t}
                   /\ \A u \in Threads \ {t} : pc'[u] = pc[u] /\ cat'[u] = cat[u]
                   /\ pc[t] \notin LogPlaces /\ pc'[t] \notin LogPlaces
<1>0. /\ lock \in [Locks -> Threads \cup {NoOne}] /\ pc \in [Threads -> Places]
      /\ cat \in [Threads -> Cats] /\ HoldsInv(t)
  BY DEF IInv, TypeInv
<1> USE <1>0 DEF Change, Goto, Take, Release, configVars, threadVars, LogPlaces
<1>1. ASSUME NEW a \in Appenders, NewAppender(t, a) PROVE Goal
  BY <1>1 DEF NewAppender
<1>2. ASSUME NEW c \in Cats, GetInstance(t, c) PROVE Goal
  BY <1>2 DEF GetInstance
<1>3. ASSUME NEW c \in Cats, setAdditivity(t, c) PROVE Goal
  BY <1>3 DEF setAdditivity
<1>4. ASSUME NEW c \in Cats, RemoveAll(t, c) PROVE Goal
  BY <1>4 DEF RemoveAll
<1>5. ASSUME NEW c \in Cats, NEW a \in Appenders, RemoveAppender(t, c, a) PROVE Goal
  BY <1>5 DEF RemoveAppender
<1>6. ASSUME NEW c \in Cats, NEW a \in Appenders, NEW own \in BOOLEAN, AddAppender(t, c, a, own)
      PROVE  Goal
  BY <1>6 DEF AddAppender
<1>7. ASSUME Delete(t) PROVE Goal
  BY <1>7 DEF Delete
<1>8. ASSUME Unregister(t) PROVE Goal
  BY <1>8 DEF Unregister, HoldsInv
<1>9. ASSUME Removed(t) PROVE Goal
  <2>1. lock[cat[t]] = t /\ cat[t] \in Cats
    BY <1>9 DEF Removed, HoldsInv
  <2>2. QED
    BY <1>9, <2>1 DEF Removed
<1>10. ASSUME NEW force \in BOOLEAN, Shutdown(t, force) PROVE Goal
  BY <1>10 DEF Shutdown
<1>11. ASSUME ShutdownCategory(t) PROVE Goal
  BY <1>11 DEF ShutdownCategory
<1>12. ASSUME ShutdownDone(t) PROVE Goal
  BY <1>12 DEF ShutdownDone, HoldsInv, Held
<1>13. ASSUME Collect(t) PROVE Goal
  BY <1>13 DEF Collect
<1>14. ASSUME AllDeleted(t) PROVE Goal
  BY <1>14 DEF AllDeleted
<1>15. ASSUME NEW all \in {"reopenAll", "closeAll"}, CallAll(t, all) PROVE Goal
  BY <1>15 DEF CallAll
<1>16. ASSUME CallNext(t) PROVE Goal
  BY <1>16 DEF CallNext
<1>17. ASSUME CallReturns(t) PROVE Goal
  BY <1>17 DEF CallReturns
<1>17a. ASSUME AllCalled(t) PROVE Goal
  BY <1>17a DEF AllCalled, HoldsInv, Held
<1> HIDE DEF Change, Goto, Take, Release, configVars, threadVars, Goal
<1>18. Goal
  BY <1>1, <1>2, <1>3, <1>4, <1>5, <1>6, <1>7, <1>8, <1>9, <1>10, <1>11, <1>12, <1>13, <1>14,
     <1>15, <1>16, <1>17, <1>17a DEF Configuring
<1>19. QED
  BY <1>18 DEF Goal

\* An event no appender has is the newest of its category.
LEMMA UnseenIsNewest ==
  ASSUME NEW f, \A a \in Appenders : \A i \in DOMAIN out[a] : out[a][i] # f
  PROVE  NewestOf(f)
  BY DEF NewestOf

\* A thread that appends nothing keeps the order, if it goes on waiting for the
\* category of its event or holds its mutex.
LEMMA OrderQuiet ==
  ASSUME IInv, OrderInv, NEW t \in Threads,
         UNCHANGED <<events, event, out>>,
         \A l \in Locks : lock'[l] = lock[l] \/ (lock[l] \in {NoOne, t} /\ lock'[l] \in {NoOne, t}),
         \A u \in Threads \ {t} : pc'[u] = pc[u] /\ cat'[u] = cat[u],
         pc'[t] \in LogPlaces =>
           /\ pc[t] \in LogPlaces
           /\ Waiting(t)' => Waiting(t)
           /\ Waiting(t)' \/ Active(t)'
  PROVE  OrderInv'
<1>1. ASSUME NEW u \in Threads \ {t}
      PROVE  /\ Waiting(u)' <=> Waiting(u)
             /\ pc[u] \in LogPlaces => (Active(u)' <=> Active(u))
  <2>1. u # NoOne /\ t # NoOne /\ u # t
    BY ThreadsAssumption
  <2>2. \A l \in Locks : lock'[l] = u <=> lock[l] = u
    BY <2>1
  <2>3. Held(u)' = Held(u) /\ Start(u)' = Start(u)
    BY <2>2 DEF Held, Start
  <2>4. pc[u] \in LogPlaces => Start(u) \in Locks
    BY ElementOfSeq DEF OrderInv, Start, Locks
  <2>5. QED
    BY <2>2, <2>3, <2>4 DEF Waiting, Active
<1>2. \A f : NewestOf(f)' <=> NewestOf(f)
  BY DEF NewestOf
<1>3. ASSUME NEW u \in Threads, pc'[u] \in LogPlaces
      PROVE  /\ event[u] \in 1 .. Len(events)
             /\ Waiting(u)' \/ Active(u)'
             /\ Waiting(u)' => \A a \in Appenders : \A i \in DOMAIN out[a] : out[a][i] # event[u]
             /\ NewestOf(event[u])
  <2>0. pc[u] \in LogPlaces
    BY <1>3
  <2>1. /\ event[u] \in 1 .. Len(events)
        /\ Waiting(u) \/ Active(u)
        /\ Waiting(u) => \A a \in Appenders : \A i \in DOMAIN out[a] : out[a][i] # event[u]
        /\ Active(u) => NewestOf(event[u])
    BY <2>0 DEF OrderInv
  <2>2. Waiting(u)' => Waiting(u)
    BY <1>1, <1>3
  <2>3. Waiting(u)' \/ Active(u)'
    BY <1>1, <1>3, <2>0, <2>1
  <2>4. NewestOf(event[u])
    BY <2>1, UnseenIsNewest
  <2>5. Waiting(u)' => \A a \in Appenders : \A i \in DOMAIN out[a] : out[a][i] # event[u]
    BY <2>1, <2>2
  <2>6. event[u] \in 1 .. Len(events)
    BY <2>1
  <2>7. QED
    BY <2>3, <2>4, <2>5, <2>6, Zenon
<1>4. \A u \in Threads : pc'[u] \in LogPlaces =>
        /\ event'[u] \in 1 .. Len(events')
        /\ Waiting(u)' \/ Active(u)'
        /\ Waiting(u)' => \A a \in Appenders : \A i \in DOMAIN out'[a] : out'[a][i] # event'[u]
        /\ Active(u)' => NewestOf(event[u])'
  <2>1. \A u \in Threads : pc'[u] \in LogPlaces => NewestOf(event[u])'
    BY <1>2, <1>3
  <2>2. QED
    BY <1>3, <2>1
<1>5. \A u, w \in Threads :
        pc'[u] \in LogPlaces /\ pc'[w] \in LogPlaces /\ event'[u] = event'[w] => u = w
  BY DEF OrderInv
<1>6. SameOrder'
  BY DEF OrderInv, SameOrder
<1>7. /\ events' \in Seq(Cats) /\ event' \in [Threads -> Nat]
      /\ out' \in [Appenders -> Seq(1 .. Len(events'))]
  BY DEF OrderInv
<1>8. QED
  BY <1>4, <1>5, <1>6, <1>7, Zenon DEF OrderInv

\* What the steps of a thread that logs keep, but for the first and the one that
\* appends: taking the mutex of a category, calling an appender of it, going up
\* to the parent, and coming back.
LEMMA LockCategoryOrder ==
  ASSUME IInv, OrderInv, NEW t \in Threads, LockCategory(t)
  PROVE  OrderInv'
<1>1. /\ lock \in [Locks -> Threads \cup {NoOne}] /\ pc \in [Threads -> Places]
      /\ cat \in [Threads -> Cats] /\ HoldsInv(t) /\ Cats \subseteq Locks /\ t # NoOne
  BY ThreadsAssumption DEF IInv, TypeInv, Locks
<1>2. /\ pc[t] = "lock" /\ pc' = [pc EXCEPT ![t] = "call"] /\ lock[cat[t]] = NoOne
      /\ lock' = [lock EXCEPT ![cat[t]] = t] /\ UNCHANGED <<cat, event, events, out>>
  BY DEF LockCategory, Goto, Take
<1>3. /\ \A l \in Held(t) : l \in Cats /\ Depth[cat[t]] < Depth[l]
      /\ pc[t] \in LogPlaces
  BY <1>1, <1>2 DEF HoldsInv, LogPlaces
<1>4. event[t] \in 1 .. Len(events) /\ Start(t) \in Cats /\ (Waiting(t) \/ Active(t))
  BY <1>3, ElementOfSeq DEF OrderInv, Start
<1>5. Held(t)' = Held(t) \cup {cat[t]}
  BY <1>1, <1>2 DEF Held
<1>6. Start(t)' = Start(t) /\ pc'[t] = "call"
  BY <1>1, <1>2 DEF Start
<1>7. Active(t)'
  <2>1. CASE Waiting(t)
    <3>1. cat[t] = Start(t) /\ Held(t) = {}
      BY <2>1 DEF Waiting
    <3>2. lock'[Start(t)] = t
      BY <1>1, <1>2, <3>1
    <3>3. QED
      BY <1>5, <1>6, <3>1, <3>2 DEF Active, LogPlaces
  <2>2. CASE Active(t)
    <3>1. lock[Start(t)] = t /\ \A l \in Held(t) : l = Start(t) \/ Depth[l] < Depth[Start(t)]
      BY <2>2 DEF Active
    <3>2. Depth[cat[t]] < Depth[Start(t)]
      BY <1>1, <1>3, <1>4, <3>1 DEF Held
    <3>3. lock'[Start(t)] = t
      BY <1>1, <1>2, <1>4, <3>1
    <3>4. QED
      BY <1>5, <1>6, <3>1, <3>2, <3>3 DEF Active, LogPlaces
  <2>3. QED
    BY <1>4, <2>1, <2>2
<1>8. ~Waiting(t)'
  BY <1>6 DEF Waiting
<1>9. /\ \A l \in Locks : \/ lock'[l] = lock[l]
                          \/ lock[l] \in {NoOne, t} /\ lock'[l] \in {NoOne, t}
      /\ \A u \in Threads \ {t} : pc'[u] = pc[u] /\ cat'[u] = cat[u]
  BY <1>1, <1>2
<1>10. QED
  BY <1>2, <1>3, <1>7, <1>8, <1>9, OrderQuiet

\* A thread with the mutex of its event's category keeps it while it calls.
LEMMA CallingOrder ==
  ASSUME IInv, OrderInv, NEW t \in Threads,
         DoAppend(t) \/ CallParent(t) \/ CallsDone(t)
  PROVE  OrderInv'
<1>1. /\ pc \in [Threads -> Places] /\ cat \in [Threads -> Cats]
  BY DEF IInv, TypeInv
<1>2. /\ pc[t] = "call" /\ pc'[t] \in {"inside", "lock", "return"}
      /\ \A u \in Threads \ {t} : pc'[u] = pc[u] /\ cat'[u] = cat[u]
      /\ UNCHANGED <<lock, event, events, out>>
  BY <1>1 DEF DoAppend, CallParent, CallsDone, Goto
<1>3. Active(t)
  BY <1>2 DEF OrderInv, Waiting, LogPlaces
<1>4. Held(t)' = Held(t) /\ Start(t)' = Start(t)
  BY <1>2 DEF Held, Start
<1>5. Active(t)'
  BY <1>2, <1>3, <1>4 DEF Active, LogPlaces
<1>6. ~Waiting(t)'
  <2>1. lock[cat[t]] = t /\ cat[t] \in Locks
    BY <1>1, <1>2 DEF IInv, HoldsInv, Locks
  <2>2. Held(t)' # {}
    BY <1>4, <2>1 DEF Held
  <2>3. QED
    BY <2>2 DEF Waiting
<1>7. pc[t] \in LogPlaces
  BY <1>2 DEF LogPlaces
<1>8. \A l \in Locks : \/ lock'[l] = lock[l]
                       \/ lock[l] \in {NoOne, t} /\ lock'[l] \in {NoOne, t}
  BY <1>2
<1>9. QED
  BY <1>2, <1>5, <1>6, <1>7, <1>8, OrderQuiet

\* The mutex of the event's category is the last a thread gives back.
LEMMA ReturnOrder ==
  ASSUME IInv, OrderInv, NEW t \in Threads, Return(t)
  PROVE  OrderInv'
<1> DEFINE others == {c \in Cats \ {cat[t]} : lock[c] = t}
<1>1. /\ lock \in [Locks -> Threads \cup {NoOne}] /\ pc \in [Threads -> Places]
      /\ cat \in [Threads -> Cats] /\ HoldsInv(t) /\ Cats \subseteq Locks /\ t # NoOne
  BY ThreadsAssumption DEF IInv, TypeInv, Locks
<1>2. /\ pc[t] = "return" /\ lock' = [lock EXCEPT ![cat[t]] = NoOne]
      /\ UNCHANGED <<event, events, out>>
      /\ \/ others = {} /\ pc' = [pc EXCEPT ![t] = "idle"] /\ UNCHANGED cat
         \/ \E c \in others : cat' = [cat EXCEPT ![t] = c] /\ pc' = pc
  BY DEF Return, Release, Goto
<1>3. /\ lock[cat[t]] = t /\ pc[t] \in LogPlaces
      /\ \A l \in Held(t) \ {cat[t]} : l \in Cats /\ Depth[cat[t]] < Depth[l]
  BY <1>1, <1>2 DEF HoldsInv, LogPlaces
<1>4. Active(t) /\ event[t] \in 1 .. Len(events) /\ Start(t) \in Cats
  BY <1>2, <1>3, ElementOfSeq DEF OrderInv, Start, Waiting
<1>5. /\ \A l \in Locks : \/ lock'[l] = lock[l]
                          \/ lock[l] \in {NoOne, t} /\ lock'[l] \in {NoOne, t}
      /\ \A u \in Threads \ {t} : pc'[u] = pc[u] /\ cat'[u] = cat[u]
  BY <1>1, <1>2, <1>3
<1>6. CASE pc'[t] = "idle"
  BY <1>2, <1>5, <1>6, OrderQuiet DEF LogPlaces
<1>7. CASE others # {}
  <2>1. pc' = pc
    BY <1>2, <1>7
  <2>2. PICK c \in others : TRUE
    BY <1>7
  <2>3. c \in Held(t) \ {cat[t]}
    BY <1>1 DEF Held
  <2>4. /\ lock[Start(t)] = t
        /\ \A l \in Held(t) : l = Start(t) \/ Depth[l] < Depth[Start(t)]
    BY <1>4 DEF Active
  <2>5. Depth[cat[t]] \in Nat /\ Depth[c] \in Nat /\ Depth[Start(t)] \in Nat
    BY <1>1, <1>4, ThreadsAssumption
  <2>6. Depth[cat[t]] < Depth[c]
    BY <1>3, <2>3
  <2>7. c = Start(t) \/ Depth[c] < Depth[Start(t)]
    BY <2>3, <2>4
  <2>8. cat[t] # Start(t)
    BY <2>5, <2>6, <2>7
  <2>9. lock'[Start(t)] = t /\ Held(t)' \subseteq Held(t) /\ Start(t)' = Start(t)
    BY <1>1, <1>2, <1>4, <2>4, <2>8 DEF Held, Start
  <2>10. Active(t)'
    BY <1>3, <2>1, <2>4, <2>9 DEF Active
  <2>11. ~Waiting(t)'
    BY <1>2, <2>1 DEF Waiting
  <2>12. QED
    BY <1>2, <1>3, <1>5, <2>1, <2>10, <2>11, OrderQuiet
<1>8. QED
  BY <1>1, <1>2, <1>6, <1>7

\* An event that is logged is a new one.
LEMMA LogOrder ==
  ASSUME IInv, OrderInv, NEW t \in Threads, NEW c \in Cats, Log(t, c)
  PROVE  OrderInv'
<1> DEFINE n == Len(events)
<1>1. /\ lock \in [Locks -> Threads \cup {NoOne}] /\ pc \in [Threads -> Places]
      /\ cat \in [Threads -> Cats] /\ HoldsInv(t)
  BY DEF IInv, TypeInv
<1>2. /\ events \in Seq(Cats) /\ event \in [Threads -> Nat]
      /\ out \in [Appenders -> Seq(1 .. n)] /\ n \in Nat
  BY DEF OrderInv
<1>3. /\ pc[t] = "idle" /\ events' = Append(events, c) /\ event' = [event EXCEPT ![t] = n + 1]
      /\ cat' = [cat EXCEPT ![t] = c] /\ pc' = [pc EXCEPT ![t] = "lock"]
      /\ UNCHANGED <<lock, out>>
  BY DEF Log, Goto
<1>4. /\ events' \in Seq(Cats) /\ Len(events') = n + 1 /\ events'[n + 1] = c
      /\ \A i \in 1 .. n : events'[i] = events[i]
  BY <1>2, <1>3, AppendProperties
<1>5. /\ out \in [Appenders -> Seq(1 .. Len(events'))]
      /\ \A a \in Appenders : \A i \in DOMAIN out[a] : out[a][i] \in 1 .. n
  <2> HIDE DEF n
  <2>1. \A a \in Appenders : out[a] \in Seq(1 .. n)
    BY <1>2
  <2>2. \A a \in Appenders : \A i \in DOMAIN out[a] : out[a][i] \in 1 .. n
    BY <2>1, ElementOfSeq, LenProperties
  <2>3. 1 .. n \subseteq 1 .. Len(events')
    BY <1>2, <1>4
  <2>4. \A a \in Appenders : out[a] \in Seq(1 .. Len(events'))
    <3>1. SUFFICES ASSUME NEW a \in Appenders PROVE out[a] \in Seq(1 .. Len(events'))
      OBVIOUS
    <3>2. Len(out[a]) \in Nat /\ out[a] \in [1 .. Len(out[a]) -> 1 .. n]
      BY <2>1, LenProperties
    <3>3. out[a] \in [1 .. Len(out[a]) -> 1 .. Len(events')]
      BY <2>3, <3>2
    <3>4. QED
      BY <3>2, <3>3, SeqDef
  <2>5. QED
    BY <1>2, <2>2, <2>4
<1>6. ASSUME NEW u \in Threads \ {t}, pc[u] \in LogPlaces
      PROVE  /\ event[u] \in 1 .. n /\ Start(u)' = Start(u)
             /\ Waiting(u)' <=> Waiting(u)
             /\ Active(u)' <=> Active(u)
  <2>1. event[u] \in 1 .. n
    BY <1>6 DEF OrderInv
  <2>2. event'[u] = event[u] /\ pc'[u] = pc[u] /\ cat'[u] = cat[u]
    BY <1>1, <1>2, <1>3
  <2>3. Start(u)' = Start(u) /\ Held(u)' = Held(u)
    BY <1>3, <1>4, <2>1, <2>2 DEF Start, Held
  <2>4. QED
    BY <1>3, <2>1, <2>2, <2>3 DEF Waiting, Active
<1>7. Waiting(t)' /\ event'[t] = n + 1
  <2>1. event'[t] = n + 1 /\ pc'[t] = "lock" /\ cat'[t] = c
    BY <1>1, <1>2, <1>3
  <2>2. Held(t)' = {}
    BY <1>1, <1>3 DEF HoldsInv, Held
  <2>3. QED
    BY <1>4, <2>1, <2>2 DEF Waiting, Start
<1>8. ASSUME NEW f \in 1 .. n, NewestOf(f) PROVE NewestOf(f)'
  BY <1>3, <1>4, <1>5, <1>8 DEF NewestOf
<1>9. ASSUME NEW u \in Threads, pc'[u] \in LogPlaces
      PROVE  /\ event'[u] \in 1 .. Len(events')
             /\ Waiting(u)' \/ Active(u)'
             /\ Waiting(u)' => \A a \in Appenders : \A i \in DOMAIN out'[a] : out'[a][i] # event'[u]
             /\ NewestOf(event[u])'
  <2>1. CASE u = t
    <3>1. event'[u] = n + 1 /\ n + 1 \in 1 .. Len(events')
      BY <1>2, <1>4, <1>7, <2>1
    <3>2. \A a \in Appenders : \A i \in DOMAIN out'[a] : out'[a][i] # n + 1
      BY <1>2, <1>3, <1>5
    <3>3. NewestOf(event[u])'
      BY <3>1, <3>2 DEF NewestOf
    <3>4. QED
      BY <1>7, <2>1, <3>1, <3>2, <3>3
  <2>2. CASE u # t
    <3>1. pc[u] = pc'[u] /\ event'[u] = event[u]
      BY <1>1, <1>2, <1>3, <2>2
    <3>2. /\ event[u] \in 1 .. n
          /\ Waiting(u) \/ Active(u)
          /\ Waiting(u) => \A a \in Appenders : \A i \in DOMAIN out[a] : out[a][i] # event[u]
          /\ Active(u) => NewestOf(event[u])
      BY <1>9, <3>1 DEF OrderInv
    <3>3. NewestOf(event[u])
      BY <3>2, UnseenIsNewest
    <3>4. NewestOf(event[u])'
      BY <1>8, <3>1, <3>2, <3>3 DEF NewestOf
    <3>5. (Waiting(u)' <=> Waiting(u)) /\ (Active(u)' <=> Active(u))
      BY <1>6, <1>9, <2>2, <3>1
    <3>6. event'[u] \in 1 .. Len(events')
      BY <1>2, <1>4, <3>1, <3>2
    <3>7. Waiting(u)' => \A a \in Appenders : \A i \in DOMAIN out'[a] : out'[a][i] # event'[u]
      BY <1>3, <3>1, <3>2, <3>5
    <3>8. QED
      BY <3>2, <3>4, <3>5, <3>6, <3>7, Zenon
  <2>3. QED
    BY <2>1, <2>2
<1>10. ASSUME NEW u \in Threads, NEW w \in Threads,
              pc'[u] \in LogPlaces, pc'[w] \in LogPlaces, event'[u] = event'[w]
       PROVE  u = w
  <2>1. \A v \in Threads \ {t} : pc'[v] = pc[v] /\ event'[v] = event[v]
    BY <1>1, <1>2, <1>3
  <2>2. \A v \in Threads \ {t} : pc[v] \in LogPlaces => event[v] \in 1 .. n
    BY DEF OrderInv
  <2>3. \A v \in Threads \ {t} : pc'[v] \in LogPlaces => event'[v] # n + 1
    BY <1>2, <2>1, <2>2
  <2>4. QED
    BY <1>7, <1>10, <2>1, <2>3 DEF OrderInv
<1>11. SameOrder'
  <2>1. \A a \in Appenders : \A i \in DOMAIN out[a] : events'[out[a][i]] = events[out[a][i]]
    BY <1>4, <1>5
  <2>2. SameOrder /\ out' = out
    BY <1>3 DEF OrderInv
  <2>3. SUFFICES ASSUME NEW a \in Appenders, NEW b \in Appenders,
                        NEW i \in DOMAIN out[a], NEW j \in DOMAIN out[a],
                        NEW k \in DOMAIN out[b], NEW l \in DOMAIN out[b],
                        i < j, out[a][i] = out[b][k], out[a][j] = out[b][l],
                        out[a][i] # out[a][j], events'[out[a][i]] = events'[out[a][j]]
                 PROVE  k < l
    BY <2>2 DEF SameOrder
  <2>4. events[out[a][i]] = events[out[a][j]]
    BY <2>1, <2>3
  <2>5. QED
    BY <2>2, <2>3, <2>4 DEF SameOrder
<1>12. event' \in [Threads -> Nat]
  BY <1>2, <1>3
<1>13. \A u \in Threads : pc'[u] \in LogPlaces =>
        /\ event'[u] \in 1 .. Len(events')
        /\ Waiting(u)' \/ Active(u)'
        /\ Waiting(u)' => \A a \in Appenders : \A i \in DOMAIN out'[a] : out'[a][i] # event'[u]
        /\ Active(u)' => NewestOf(event[u])'
  BY <1>9
<1>14. out' \in [Appenders -> Seq(1 .. Len(events'))]
  BY <1>3, <1>5
<1>15. events' \in Seq(Cats)
  BY <1>4
<1>16. QED
  BY <1>10, <1>11, <1>12, <1>13, <1>14, <1>15, Zenon DEF OrderInv

\* An appender is given an event after all those of its category that any
\* appender has been given: no younger one can pass the thread that holds the
\* mutex of the category.
LEMMA AppendedOrder ==
  ASSUME IInv, OrderInv, NEW t \in Threads, Appended(t)
  PROVE  OrderInv'
<1> DEFINE a0 == app[t]
           f == event[t]
           n == Len(out[a0])
<1>1. /\ lock \in [Locks -> Threads \cup {NoOne}] /\ pc \in [Threads -> Places]
      /\ app \in [Threads -> Appenders \cup {NoOne}]
      /\ attached \in [Cats -> SUBSET Appenders] /\ cat \in [Threads -> Cats]
  BY DEF IInv, TypeInv
<1>2. /\ events \in Seq(Cats) /\ event \in [Threads -> Nat]
      /\ out \in [Appenders -> Seq(1 .. Len(events))]
  BY DEF OrderInv
<1>3. /\ pc[t] = "inside" /\ pc' = [pc EXCEPT ![t] = "call"]
      /\ out' = [out EXCEPT ![a0] = Append(out[a0], f)]
      /\ UNCHANGED <<lock, cat, event, events>>
  BY DEF Appended, Goto
<1>4. a0 \in Appenders
  BY <1>1, <1>3 DEF IInv, CallInv
<1>5. f \in 1 .. Len(events) /\ Active(t) /\ NewestOf(f)
  BY <1>3 DEF OrderInv, LogPlaces, Waiting
<1>6. /\ out' \in [Appenders -> Seq(1 .. Len(events))]
      /\ DOMAIN out[a0] = 1 .. n /\ DOMAIN out'[a0] = 1 .. n + 1 /\ n \in Nat
      /\ \A i \in 1 .. n : out'[a0][i] = out[a0][i]
      /\ out'[a0][n + 1] = f
      /\ \A b \in Appenders \ {a0} : out'[b] = out[b]
  <2>1. out[a0] \in Seq(1 .. Len(events))
    BY <1>2, <1>4
  <2>2. out'[a0] = Append(out[a0], f) /\ \A b \in Appenders \ {a0} : out'[b] = out[b]
    BY <1>2, <1>3, <1>4
  <2>3. /\ out'[a0] \in Seq(1 .. Len(events)) /\ Len(out'[a0]) = n + 1
        /\ \A i \in 1 .. n : out'[a0][i] = out[a0][i]
        /\ out'[a0][n + 1] = f
    BY <1>5, <2>1, <2>2, AppendProperties
  <2>4. DOMAIN out[a0] = 1 .. n /\ n \in Nat /\ DOMAIN out'[a0] = 1 .. n + 1
    BY <2>1, <2>3, LenProperties
  <2>5. out' \in [Appenders -> Seq(1 .. Len(events))]
    BY <1>2, <1>3, <1>4, <2>2, <2>3
  <2>6. QED
    BY <2>2, <2>3, <2>4, <2>5
<1> HIDE DEF a0, f, n
\* The new position, or one that was there before.
<1>7. ASSUME NEW b \in Appenders, NEW i \in DOMAIN out'[b]
      PROVE  /\ i \in Nat
             /\ \/ b = a0 /\ i = n + 1 /\ out'[b][i] = f
                \/ i \in DOMAIN out[b] /\ out'[b][i] = out[b][i]
             /\ b = a0 => i <= n + 1
             /\ b = a0 /\ i # n + 1 => i <= n
  <2>1. CASE b = a0
    <3>1. i \in 1 .. n + 1
      BY <1>6, <2>1
    <3>2. i = n + 1 \/ i \in 1 .. n
      BY <1>6, <3>1
    <3>3. QED
      BY <1>6, <2>1, <3>1, <3>2
  <2>2. CASE b # a0
    <3>1. out'[b] = out[b] /\ i \in DOMAIN out[b]
      BY <1>6, <2>2
    <3>2. DOMAIN out[b] \subseteq Nat
      BY <1>2, LenProperties
    <3>3. QED
      BY <2>2, <3>1, <3>2
  <2>3. QED
    BY <2>1, <2>2
<1>8. \A u \in Threads : u # t => pc'[u] = pc[u]
  BY <1>1, <1>3
<1>9. pc'[t] = "call" /\ pc[t] \in LogPlaces /\ pc'[t] \in LogPlaces
  BY <1>1, <1>3 DEF LogPlaces
<1>10. ASSUME NEW u \in Threads
       PROVE  /\ Held(u)' = Held(u) /\ Start(u)' = Start(u)
              /\ Waiting(u)' <=> Waiting(u)
              /\ Active(u)' <=> Active(u)
  <2>1. Held(u)' = Held(u) /\ Start(u)' = Start(u)
    BY <1>3 DEF Held, Start
  <2>2. u # t => (Waiting(u)' <=> Waiting(u)) /\ (Active(u)' <=> Active(u))
    BY <1>3, <1>8, <2>1 DEF Waiting, Active
  <2>3. ~Waiting(t)' /\ ~Waiting(t)
    BY <1>3, <1>9 DEF Waiting
  <2>4. Active(t)' <=> Active(t)
    <3>1. Held(t)' = Held(t) /\ Start(t)' = Start(t)
      BY <1>3 DEF Held, Start
    <3>2. QED
      BY <1>3, <1>9, <3>1 DEF Active
  <2>5. QED
    BY <2>1, <2>2, <2>3, <2>4
<1>11. ASSUME NEW g, NewestOf(g), g = f \/ events[g] # events[f]
       PROVE  NewestOf(g)'
  <2>1. SUFFICES ASSUME NEW a \in Appenders, NEW i \in DOMAIN out'[a], NEW j \in DOMAIN out'[a],
                        i < j, out'[a][i] = g, events[out'[a][j]] = events[g]
                 PROVE  out'[a][j] = g
    BY <1>3 DEF NewestOf
  <2>2. CASE a = a0 /\ j = n + 1
    BY <1>6, <1>11, <2>1, <2>2
  <2>3. CASE ~(a = a0 /\ j = n + 1)
    <3>1. j \in DOMAIN out[a] /\ out'[a][j] = out[a][j]
      BY <1>7, <2>3
    <3>2. ~(a = a0 /\ i = n + 1)
      BY <1>6, <1>7, <2>1, <2>3
    <3>3. i \in DOMAIN out[a] /\ out'[a][i] = out[a][i]
      BY <1>7, <3>2
    <3>4. QED
      BY <1>11, <2>1, <3>1, <3>3 DEF NewestOf
  <2>4. QED
    BY <2>2, <2>3
<1>12. ASSUME NEW u \in Threads, pc'[u] \in LogPlaces
       PROVE  /\ event[u] \in 1 .. Len(events)
              /\ Waiting(u)' \/ Active(u)'
              /\ Waiting(u)' => \A b \in Appenders : \A i \in DOMAIN out'[b] : out'[b][i] # event[u]
              /\ Active(u)' => NewestOf(event[u])'
  <2>1. pc[u] \in LogPlaces
    BY <1>8, <1>9, <1>12
  <2>2. /\ event[u] \in 1 .. Len(events)
        /\ Waiting(u) \/ Active(u)
        /\ Waiting(u) => \A b \in Appenders : \A i \in DOMAIN out[b] : out[b][i] # event[u]
        /\ Active(u) => NewestOf(event[u])
    BY <2>1 DEF OrderInv
  <2>3. (Waiting(u)' <=> Waiting(u)) /\ (Active(u)' <=> Active(u))
    BY <1>10
  <2>4. ASSUME Waiting(u)', NEW b \in Appenders, NEW i \in DOMAIN out'[b]
        PROVE  out'[b][i] # event[u]
    <3>1. u # t
      BY <1>9, <2>4 DEF Waiting
    <3>2. event[u] # f
      BY <1>9, <2>1, <3>1 DEF OrderInv, f
    <3>3. QED
      BY <1>7, <2>2, <2>3, <2>4, <3>2
  <2>5. ASSUME Active(u)' PROVE NewestOf(event[u])'
    <3>1. NewestOf(event[u])
      BY <2>2, <2>3, <2>5
    <3>2. event[u] = f \/ events[event[u]] # events[f]
      <4>1. CASE u = t
        BY <4>1 DEF f
      <4>2. CASE u # t
        <5>1. lock[Start(u)] = u /\ lock[Start(t)] = t
          BY <1>5, <2>3, <2>5 DEF Active
        <5>2. QED
          BY <4>2, <5>1 DEF Start, f
      <4>3. QED
        BY <4>1, <4>2
    <3>3. QED
      BY <1>3, <1>11, <3>1, <3>2 DEF NewestOf
  <2>6. QED
    BY <2>2, <2>3, <2>4, <2>5
<1>13. \A u, w \in Threads :
         pc'[u] \in LogPlaces /\ pc'[w] \in LogPlaces /\ event'[u] = event'[w] => u = w
  BY <1>3, <1>8, <1>9 DEF OrderInv
<1>14. SameOrder'
  <2> SUFFICES \A a, b \in Appenders :
                 \A i, j \in DOMAIN out'[a], k, l \in DOMAIN out'[b] :
                   /\ i < j /\ out'[a][i] = out'[b][k] /\ out'[a][j] = out'[b][l]
                   /\ out'[a][i] # out'[a][j] /\ events'[out'[a][i]] = events'[out'[a][j]]
                   => k < l
    BY Zenon DEF SameOrder
  <2>1. SUFFICES ASSUME NEW a \in Appenders, NEW b \in Appenders,
                        NEW i \in DOMAIN out'[a], NEW j \in DOMAIN out'[a],
                        NEW k \in DOMAIN out'[b], NEW l \in DOMAIN out'[b],
                        i < j, out'[a][i] = out'[b][k], out'[a][j] = out'[b][l],
                        out'[a][i] # out'[a][j], events'[out'[a][i]] = events'[out'[a][j]]
                 PROVE  k < l
    OBVIOUS
  <2>0. events' = events
    BY <1>3
  <2>2. i \in Nat /\ j \in Nat /\ k \in Nat /\ l \in Nat /\ k # l /\ n \in Nat
    BY <1>6, <1>7, <2>1
  <2>3. ~(a = a0 /\ i = n + 1)
    BY <1>7, <2>1, <2>2
  <2>4. i \in DOMAIN out[a] /\ out'[a][i] = out[a][i]
    BY <1>7, <2>3
  <2>5. ASSUME b = a0, k = n + 1 PROVE FALSE
    <3>1. out'[a][i] = f
      BY <1>6, <2>1, <2>5
    <3>2. ~(a = a0 /\ j = n + 1)
      BY <1>6, <2>1, <3>1
    <3>3. j \in DOMAIN out[a] /\ out'[a][j] = out[a][j]
      BY <1>7, <3>2
    <3>4. QED
      BY <1>5, <2>0, <2>1, <2>4, <3>1, <3>3 DEF NewestOf
  <2>6. k \in DOMAIN out[b] /\ out'[b][k] = out[b][k]
    BY <1>7, <2>5
  <2>7. CASE b = a0 /\ l = n + 1
    <3>1. k <= n
      BY <1>7, <2>5, <2>7
    <3>2. QED
      BY <2>2, <2>7, <3>1
  <2>8. CASE ~(b = a0 /\ l = n + 1)
    <3>1. l \in DOMAIN out[b] /\ out'[b][l] = out[b][l]
      BY <1>7, <2>8
    <3>2. CASE a = a0 /\ j = n + 1
      <4>1. out[b][l] = f
        BY <1>6, <2>1, <3>1, <3>2
      <4>2. ASSUME l < k PROVE FALSE
        BY <1>5, <2>0, <2>1, <2>6, <3>1, <4>1, <4>2 DEF NewestOf
      <4>3. QED
        BY <2>2, <4>2
    <3>3. CASE ~(a = a0 /\ j = n + 1)
      <4>1. j \in DOMAIN out[a] /\ out'[a][j] = out[a][j]
        BY <1>7, <3>3
      <4>2. SameOrder
        BY DEF OrderInv
      <4>3. /\ i < j /\ out[a][i] = out[b][k] /\ out[a][j] = out[b][l]
            /\ out[a][i] # out[a][j] /\ events[out[a][i]] = events[out[a][j]]
        BY <2>0, <2>1, <2>4, <2>6, <3>1, <4>1
      <4>4. QED
        BY <2>4, <2>6, <3>1, <4>1, <4>2, <4>3 DEF SameOrder
    <3>4. QED
      BY <3>2, <3>3
  <2>9. QED
    BY <2>7, <2>8
<1>15. \A u \in Threads : pc'[u] \in LogPlaces =>
        /\ event'[u] \in 1 .. Len(events')
        /\ Waiting(u)' \/ Active(u)'
        /\ Waiting(u)' => \A b \in Appenders : \A i \in DOMAIN out'[b] : out'[b][i] # event'[u]
        /\ Active(u)' => NewestOf(event[u])'
  BY <1>3, <1>12
<1>16. events' \in Seq(Cats) /\ event' \in [Threads -> Nat]
  BY <1>2, <1>3
<1>17. out' \in [Appenders -> Seq(1 .. Len(events'))]
  BY <1>3, <1>6
<1>18. QED
  BY <1>13, <1>14, <1>15, <1>16, <1>17, Zenon DEF OrderInv

\* A thread that configures appends nothing.
LEMMA ConfigOrder ==
  ASSUME IInv, OrderInv, NEW t \in Threads, Configuring(t)
  PROVE  OrderInv'
<1>1. /\ UNCHANGED <<event, events, out>>
      /\ \A l \in Locks : \/ lock'[l] = lock[l]
                          \/ lock[l] \in {NoOne, t} /\ lock'[l] \in {NoOne, t}
      /\ \A u \in Threads \ {t} : pc'[u] = pc[u] /\ cat'[u] = cat[u]
      /\ pc[t] \notin LogPlaces /\ pc'[t] \notin LogPlaces
  BY ConfigQuiet
<1>2. QED
  BY <1>1, OrderQuiet

\* Nothing has been logged.
LEMMA InitOrder == ThreadsInit => OrderInv
<1> SUFFICES ASSUME ThreadsInit PROVE OrderInv
  OBVIOUS
<1>1. /\ events = <<>> /\ out = [a \in Appenders |-> <<>>] /\ event = [t \in Threads |-> 0]
      /\ pc = [t \in Threads |-> "idle"]
  BY DEF ThreadsInit
<1>2. events \in Seq(Cats) /\ event \in [Threads -> Nat]
  BY <1>1
<1>3. out \in [Appenders -> Seq(1 .. Len(events))]
  BY <1>1, EmptySeq
<1>4. \A t \in Threads : pc[t] \notin LogPlaces
  BY <1>1 DEF LogPlaces
<1>5. SameOrder
  BY <1>1 DEF SameOrder
<1>6. QED
  BY <1>2, <1>3, <1>4, <1>5 DEF OrderInv

\* Whoever steps, the order is kept.
LEMMA NextOrder == IInv /\ OrderInv /\ [ThreadsNext]_logVars => OrderInv'
<1> SUFFICES ASSUME IInv, OrderInv, [ThreadsNext]_logVars PROVE OrderInv'
  OBVIOUS
<1>1. CASE UNCHANGED logVars
  <2>1. UNCHANGED <<lock, pc, cat, event, events, out>>
    BY <1>1 DEF logVars, threadVars
  <2>2. \A u \in Threads : Held(u)' = Held(u) /\ Start(u)' = Start(u)
    BY <2>1 DEF Held, Start
  <2>3. \A u \in Threads : (Waiting(u)' <=> Waiting(u)) /\ (Active(u)' <=> Active(u))
    BY <2>1, <2>2 DEF Waiting, Active
  <2>4. \A u \in Threads : NewestOf(event[u])' <=> NewestOf(event[u])
    BY <2>1 DEF NewestOf
  <2>5. SameOrder' <=> SameOrder
    BY <2>1 DEF SameOrder
  <2>6. QED
    BY <2>1, <2>3, <2>4, <2>5 DEF OrderInv
<1>2. ASSUME NEW t \in Threads, Logging(t) PROVE OrderInv'
  BY <1>2, LogOrder, LockCategoryOrder, CallingOrder, AppendedOrder, ReturnOrder DEF Logging
<1>3. ASSUME NEW t \in Admins, Configuring(t) PROVE OrderInv'
  <2>1. t \in Threads
    BY ThreadsAssumption
  <2>2. QED
    BY <1>3, <2>1, ConfigOrder
<1>4. QED
  BY <1>1, <1>2, <1>3 DEF ThreadsNext

\* For any hierarchy and any number of threads, appenders and changes of the
\* configuration: two events logged to one category come in the same order in
\* all appenders, because the mutex of the category is kept until the parents'
\* appenders have been called.
THEOREM EventsInOrder == ThreadsSpec => []SameOrder
<1>1. OrderInv => SameOrder
  BY DEF OrderInv
<1>2. QED
  BY <1>1, ThreadsInitInv, ThreadsNextInv, InitOrder, NextOrder, PTL DEF ThreadsSpec

-----------------------------------------------------------------------------
(* The life of appenders. *)

\* What a thread that configures is doing, also while it unregisters.
Mode(t) == IF pc[t] = "unregister" THEN after[t] ELSE pc[t]

\* An owned appender of c that the thread is deleting and taking out of c.
Clears(t, c, a) ==
  /\ cat[t] = c /\ a \in owns[c]
  /\ \/ Mode(t) = "removeAll"
     \/ Mode(t) = "removeAppender" /\ app[t] = a

RegistryInv ==
  /\ life \in [Appenders -> {"none", "alive", "dying", "dead"}]
  /\ \A n \in Names : registry[n] # NoOne =>
       NameOf[registry[n]] = n /\ life[registry[n]] \in {"alive", "dying"}

OwnerInv ==
  /\ \A c \in Cats : owns[c] \subseteq attached[c]
  /\ \A c \in Cats : attached[c] # {} => c \in known
  /\ \A c, d \in Cats : \A a \in owns[c] : a \in attached[d] => c = d

\* What is attached to a category lives, but for what a thread with its mutex is
\* deleting.
LifeInv(t) == \A c \in Cats : \A a \in attached[c] : life[a] = "alive" \/ Clears(t, c, a)

\* Where the thread that configures is, and what is left to do.
AdminInv(t) ==
  /\ Mode(t) \in {"removeAppender", "removeAll"} => todo[t] \subseteq owns[cat[t]]
  /\ Mode(t) = "removeAppender" => todo[t] \subseteq {app[t]} /\ lock["maintainer"] # t
  /\ pc[t] = "unregister" =>
       app[t] \in Appenders /\ (after[t] # "deleteAll" => app[t] \in owns[cat[t]])
  /\ lock["maintainer"] = t =>
       \A c \in Cats : attached[c] # {} => c \in left[t] \/ (c = cat[t] /\ Mode(t) = "removeAll")
  /\ Mode(t) \in {"collect", "deleteAll"} => \A c \in Cats : attached[c] = {}

DInv(t) == RegistryInv /\ OwnerInv /\ LifeInv(t) /\ AdminInv(t)

\* Of the places of a thread that configures these are none.
Quiet == {"idle", "lock", "call", "inside", "return"}

\* A new appender replaces one of its name in the registry, and is alive.
LEMMA NewAppenderLife ==
  ASSUME IInv, NEW t \in Threads, DInv(t), NEW a0 \in Appenders, NewAppender(t, a0)
  PROVE  DInv(t)'
<1>1. TypeInv /\ HoldsInv(t) /\ RegistryInv /\ OwnerInv /\ LifeInv(t) /\ AdminInv(t) /\ t # NoOne
  BY ThreadsAssumption DEF IInv, DInv
<1> USE ThreadsAssumption DEF NewAppender, Change, Goto, Take, Release, configVars, threadVars,
        TypeInv, Locks, Places
<1>2. RegistryInv'
  BY <1>1 DEF RegistryInv
<1>3. OwnerInv'
  BY <1>1 DEF OwnerInv
<1>4. LifeInv(t)'
  BY <1>1 DEF RegistryInv, OwnerInv, LifeInv, AdminInv, Clears, Mode
<1>5. AdminInv(t)'
  BY <1>1 DEF RegistryInv, OwnerInv, AdminInv, Mode, HoldsInv, Held
<1>6. QED
  BY <1>2, <1>3, <1>4, <1>5 DEF DInv

\* More categories are known.
LEMMA GetInstanceLife ==
  ASSUME IInv, NEW t \in Threads, DInv(t), NEW c0 \in Cats, GetInstance(t, c0)
  PROVE  DInv(t)'
<1>1. TypeInv /\ HoldsInv(t) /\ RegistryInv /\ OwnerInv /\ LifeInv(t) /\ AdminInv(t) /\ t # NoOne
  BY ThreadsAssumption DEF IInv, DInv
<1> USE ThreadsAssumption DEF GetInstance, Change, Goto, Take, Release, configVars, threadVars,
        TypeInv, Locks, Places
<1>2. RegistryInv'
  BY <1>1 DEF RegistryInv
<1>3. OwnerInv'
  BY <1>1 DEF OwnerInv
<1>4. LifeInv(t)'
  BY <1>1 DEF RegistryInv, OwnerInv, LifeInv, AdminInv, Clears, Mode
<1>5. AdminInv(t)'
  BY <1>1 DEF RegistryInv, OwnerInv, AdminInv, Mode, HoldsInv, Held
<1>6. QED
  BY <1>2, <1>3, <1>4, <1>5 DEF DInv

\* setAdditivity() concerns no appender.
LEMMA setAdditivityLife ==
  ASSUME IInv, NEW t \in Threads, DInv(t), NEW c0 \in Cats, setAdditivity(t, c0)
  PROVE  DInv(t)'
<1>1. TypeInv /\ HoldsInv(t) /\ RegistryInv /\ OwnerInv /\ LifeInv(t) /\ AdminInv(t) /\ t # NoOne
  BY ThreadsAssumption DEF IInv, DInv
<1> USE ThreadsAssumption DEF setAdditivity, Change, Goto, Take, Release, configVars, threadVars,
        TypeInv, Locks, Places
<1>2. RegistryInv'
  BY <1>1 DEF RegistryInv
<1>3. OwnerInv'
  BY <1>1 DEF OwnerInv
<1>4. LifeInv(t)'
  BY <1>1 DEF RegistryInv, OwnerInv, LifeInv, AdminInv, Clears, Mode
<1>5. AdminInv(t)'
  BY <1>1 DEF RegistryInv, OwnerInv, AdminInv, Mode, HoldsInv, Held
<1>6. QED
  BY <1>2, <1>3, <1>4, <1>5 DEF DInv

\* What removeAllAppenders() is to delete is what the category owns.
LEMMA RemoveAllLife ==
  ASSUME IInv, NEW t \in Threads, DInv(t), NEW c0 \in Cats, RemoveAll(t, c0)
  PROVE  DInv(t)'
<1>1. TypeInv /\ HoldsInv(t) /\ RegistryInv /\ OwnerInv /\ LifeInv(t) /\ AdminInv(t) /\ t # NoOne
  BY ThreadsAssumption DEF IInv, DInv
<1> USE ThreadsAssumption DEF RemoveAll, Change, Goto, Take, Release, configVars, threadVars,
        TypeInv, Locks, Places
<1>2. RegistryInv'
  BY <1>1 DEF RegistryInv
<1>3. OwnerInv'
  BY <1>1 DEF OwnerInv
<1>4. LifeInv(t)'
  BY <1>1 DEF RegistryInv, OwnerInv, LifeInv, AdminInv, Clears, Mode
<1>5. AdminInv(t)'
  BY <1>1 DEF RegistryInv, OwnerInv, AdminInv, Mode, HoldsInv, Held
<1>6. QED
  BY <1>2, <1>3, <1>4, <1>5 DEF DInv

\* removeAppender() is to delete its appender, if the category owns it.
LEMMA RemoveAppenderLife ==
  ASSUME IInv, NEW t \in Threads, DInv(t), NEW c0 \in Cats, NEW a0 \in Appenders, RemoveAppender(t, c0, a0)
  PROVE  DInv(t)'
<1>1. TypeInv /\ HoldsInv(t) /\ RegistryInv /\ OwnerInv /\ LifeInv(t) /\ AdminInv(t) /\ t # NoOne
  BY ThreadsAssumption DEF IInv, DInv
<1> USE ThreadsAssumption DEF RemoveAppender, Change, Goto, Take, Release, configVars, threadVars,
        TypeInv, Locks, Places
<1>2. RegistryInv'
  BY <1>1 DEF RegistryInv
<1>3. OwnerInv'
  BY <1>1 DEF OwnerInv
<1>4. LifeInv(t)'
  BY <1>1 DEF RegistryInv, OwnerInv, LifeInv, AdminInv, Clears, Mode
<1>5. AdminInv(t)'
  BY <1>1 DEF RegistryInv, OwnerInv, AdminInv, Mode, HoldsInv, Held
<1>6. QED
  BY <1>2, <1>3, <1>4, <1>5 DEF DInv

\* What is attached is alive, and has no other owner if it gets one.
LEMMA AddAppenderLife ==
  ASSUME IInv, NEW t \in Threads, DInv(t), NEW c0 \in Cats, NEW a0 \in Appenders, NEW own \in BOOLEAN, AddAppender(t, c0, a0, own)
  PROVE  DInv(t)'
<1>1. TypeInv /\ HoldsInv(t) /\ RegistryInv /\ OwnerInv /\ LifeInv(t) /\ AdminInv(t) /\ t # NoOne
  BY ThreadsAssumption DEF IInv, DInv
<1> USE ThreadsAssumption DEF AddAppender, Change, Goto, Take, Release, configVars, threadVars,
        TypeInv, Locks, Places
<1>2. RegistryInv'
  BY <1>1 DEF RegistryInv
<1>3. OwnerInv'
  BY <1>1 DEF OwnerInv
<1>4. LifeInv(t)'
  BY <1>1 DEF RegistryInv, OwnerInv, LifeInv, AdminInv, Clears, Mode
<1>5. AdminInv(t)'
  BY <1>1 DEF RegistryInv, OwnerInv, AdminInv, Mode, HoldsInv, Held
<1>6. QED
  BY <1>2, <1>3, <1>4, <1>5 DEF DInv

\* What is being deleted is still attached, to the category the thread clears.
LEMMA DeleteLife ==
  ASSUME IInv, NEW t \in Threads, DInv(t), Delete(t)
  PROVE  DInv(t)'
<1>1. TypeInv /\ HoldsInv(t) /\ RegistryInv /\ OwnerInv /\ LifeInv(t) /\ AdminInv(t) /\ t # NoOne
  BY ThreadsAssumption DEF IInv, DInv
<1> USE ThreadsAssumption DEF Delete, Goto, Take, Release, configVars, threadVars,
        TypeInv, Locks, Places
<1>2. RegistryInv'
  BY <1>1 DEF RegistryInv
<1>3. OwnerInv'
  BY <1>1 DEF OwnerInv
<1>4. LifeInv(t)'
  BY <1>1 DEF RegistryInv, OwnerInv, LifeInv, AdminInv, Clears, Mode
<1>5. AdminInv(t)'
  BY <1>1 DEF RegistryInv, OwnerInv, AdminInv, Mode, HoldsInv, Held
<1>6. QED
  BY <1>2, <1>3, <1>4, <1>5 DEF DInv

\* What is dead is in the registry under no name: it was registered under its own.
LEMMA UnregisterLife ==
  ASSUME IInv, NEW t \in Threads, DInv(t), Unregister(t)
  PROVE  DInv(t)'
<1>1. TypeInv /\ HoldsInv(t) /\ RegistryInv /\ OwnerInv /\ LifeInv(t) /\ AdminInv(t)
  BY DEF IInv, DInv
<1>2. /\ pc[t] = "unregister" /\ pc' = [pc EXCEPT ![t] = after[t]]
      /\ registry' = [registry EXCEPT ![NameOf[app[t]]] = NoOne]
      /\ life' = [life EXCEPT ![app[t]] = "dead"]
      /\ UNCHANGED <<lock, known, attached, owns, cat, app, todo, left, after>>
  BY DEF Unregister, Goto
<1>3. pc'[t] = after[t] /\ after[t] \in {"removeAppender", "removeAll", "deleteAll"}
  BY <1>1, <1>2 DEF TypeInv, HoldsInv
<1>4. app[t] \in Appenders /\ (after[t] # "deleteAll" => app[t] \in owns[cat[t]])
  BY <1>1, <1>2 DEF AdminInv
<1>5. Mode(t)' = Mode(t) /\ Mode(t) = after[t]
  BY <1>2, <1>3 DEF Mode
<1>6. RegistryInv'
  <2>1. life' \in [Appenders -> {"none", "alive", "dying", "dead"}]
    BY <1>1, <1>2 DEF RegistryInv
  <2>2. ASSUME NEW n \in Names, registry'[n] # NoOne
        PROVE  NameOf[registry'[n]] = n /\ life'[registry'[n]] \in {"alive", "dying"}
    <3>1. n # NameOf[app[t]] /\ registry'[n] = registry[n] /\ registry[n] \in Appenders
      BY <1>1, <1>2, <2>2 DEF TypeInv
    <3>2. NameOf[registry[n]] = n /\ life[registry[n]] \in {"alive", "dying"}
      BY <1>1, <2>2, <3>1 DEF RegistryInv
    <3>3. registry[n] # app[t]
      BY <3>1, <3>2
    <3>4. QED
      BY <1>1, <1>2, <3>1, <3>2, <3>3 DEF RegistryInv
  <2>3. QED
    BY <2>1, <2>2 DEF RegistryInv
<1>7. OwnerInv'
  BY <1>1, <1>2 DEF OwnerInv
<1>8. LifeInv(t)'
  <2>1. SUFFICES ASSUME NEW c \in Cats, NEW a \in attached[c]
                 PROVE  life'[a] = "alive" \/ Clears(t, c, a)'
    BY <1>2 DEF LifeInv
  <2>2. a \in Appenders /\ (life[a] = "alive" \/ Clears(t, c, a))
    BY <1>1 DEF TypeInv, LifeInv
  <2>3. Clears(t, c, a)' <=> Clears(t, c, a)
    BY <1>2, <1>5 DEF Clears
  <2>4. CASE a # app[t]
    BY <1>1, <1>2, <2>2, <2>3, <2>4 DEF RegistryInv
  <2>5. CASE a = app[t]
    <3>1. after[t] # "deleteAll"
      BY <1>1, <1>5 DEF AdminInv
    <3>2. a \in owns[cat[t]] /\ cat[t] = c
      BY <1>1, <1>4, <2>5, <3>1 DEF OwnerInv, TypeInv
    <3>3. Clears(t, c, a)
      BY <1>3, <1>5, <2>5, <3>1, <3>2 DEF Clears
    <3>4. QED
      BY <2>3, <3>3
  <2>6. QED
    BY <2>4, <2>5
<1>9. AdminInv(t)'
  BY <1>1, <1>2, <1>3, <1>5 DEF AdminInv
<1>10. QED
  BY <1>6, <1>7, <1>8, <1>9 DEF DInv

\* What was deleted leaves the category.
LEMMA RemovedLife ==
  ASSUME IInv, NEW t \in Threads, DInv(t), Removed(t)
  PROVE  DInv(t)'
<1>1. TypeInv /\ HoldsInv(t) /\ RegistryInv /\ OwnerInv /\ LifeInv(t) /\ AdminInv(t) /\ t # NoOne
  BY ThreadsAssumption DEF IInv, DInv
<1> USE ThreadsAssumption DEF Removed, Goto, Take, Release, configVars, threadVars,
        TypeInv, Locks, Places
<1>2. RegistryInv'
  BY <1>1 DEF RegistryInv
<1>3. OwnerInv'
  BY <1>1 DEF OwnerInv
<1>4. LifeInv(t)'
  BY <1>1 DEF RegistryInv, OwnerInv, LifeInv, AdminInv, Clears, Mode
<1>5. AdminInv(t)'
  BY <1>1 DEF RegistryInv, OwnerInv, AdminInv, Mode, HoldsInv, Held
<1>6. QED
  BY <1>2, <1>3, <1>4, <1>5 DEF DInv

\* shutdown() is to clear every category that has appenders.
LEMMA ShutdownLife ==
  ASSUME IInv, NEW t \in Threads, DInv(t), NEW force \in BOOLEAN, Shutdown(t, force)
  PROVE  DInv(t)'
<1>1. TypeInv /\ HoldsInv(t) /\ RegistryInv /\ OwnerInv /\ LifeInv(t) /\ AdminInv(t) /\ t # NoOne
  BY ThreadsAssumption DEF IInv, DInv
<1> USE ThreadsAssumption DEF Shutdown, Change, Goto, Take, Release, configVars, threadVars,
        TypeInv, Locks, Places
<1>2. RegistryInv'
  BY <1>1 DEF RegistryInv
<1>3. OwnerInv'
  BY <1>1 DEF OwnerInv
<1>4. LifeInv(t)'
  BY <1>1 DEF RegistryInv, OwnerInv, LifeInv, AdminInv, Clears, Mode
<1>5. AdminInv(t)'
  BY <1>1 DEF RegistryInv, OwnerInv, AdminInv, Mode, HoldsInv, Held
<1>6. QED
  BY <1>2, <1>3, <1>4, <1>5 DEF DInv

\* One category after the other.
LEMMA ShutdownCategoryLife ==
  ASSUME IInv, NEW t \in Threads, DInv(t), ShutdownCategory(t)
  PROVE  DInv(t)'
<1>1. TypeInv /\ HoldsInv(t) /\ RegistryInv /\ OwnerInv /\ LifeInv(t) /\ AdminInv(t) /\ t # NoOne
  BY ThreadsAssumption DEF IInv, DInv
<1> USE ThreadsAssumption DEF ShutdownCategory, Goto, Take, Release, configVars, threadVars,
        TypeInv, Locks, Places
<1>2. RegistryInv'
  BY <1>1 DEF RegistryInv
<1>3. OwnerInv'
  BY <1>1 DEF OwnerInv
<1>4. LifeInv(t)'
  BY <1>1 DEF RegistryInv, OwnerInv, LifeInv, AdminInv, Clears, Mode
<1>5. AdminInv(t)'
  BY <1>1 DEF RegistryInv, OwnerInv, AdminInv, Mode, HoldsInv, Held
<1>6. QED
  BY <1>2, <1>3, <1>4, <1>5 DEF DInv

\* Then nothing is attached.
LEMMA ShutdownDoneLife ==
  ASSUME IInv, NEW t \in Threads, DInv(t), ShutdownDone(t)
  PROVE  DInv(t)'
<1>1. TypeInv /\ HoldsInv(t) /\ RegistryInv /\ OwnerInv /\ LifeInv(t) /\ AdminInv(t) /\ t # NoOne
  BY ThreadsAssumption DEF IInv, DInv
<1> USE ThreadsAssumption DEF ShutdownDone, Goto, Take, Release, configVars, threadVars,
        TypeInv, Locks, Places
<1>2. RegistryInv'
  BY <1>1 DEF RegistryInv
<1>3. OwnerInv'
  BY <1>1 DEF OwnerInv
<1>4. LifeInv(t)'
  BY <1>1 DEF RegistryInv, OwnerInv, LifeInv, AdminInv, Clears, Mode
<1>5. AdminInv(t)'
  BY <1>1 DEF RegistryInv, OwnerInv, AdminInv, Mode, HoldsInv, Held
<1>6. QED
  BY <1>2, <1>3, <1>4, <1>5 DEF DInv

\* The registry is empty while all that was in it is deleted.
LEMMA CollectLife ==
  ASSUME IInv, NEW t \in Threads, DInv(t), Collect(t)
  PROVE  DInv(t)'
<1>1. TypeInv /\ HoldsInv(t) /\ RegistryInv /\ OwnerInv /\ LifeInv(t) /\ AdminInv(t) /\ t # NoOne
  BY ThreadsAssumption DEF IInv, DInv
<1> USE ThreadsAssumption DEF Collect, Goto, Take, Release, configVars, threadVars,
        TypeInv, Locks, Places
<1>2. RegistryInv'
  BY <1>1 DEF RegistryInv
<1>3. OwnerInv'
  BY <1>1 DEF OwnerInv
<1>4. LifeInv(t)'
  BY <1>1 DEF RegistryInv, OwnerInv, LifeInv, AdminInv, Clears, Mode
<1>5. AdminInv(t)'
  BY <1>1 DEF RegistryInv, OwnerInv, AdminInv, Mode, HoldsInv, Held
<1>6. QED
  BY <1>2, <1>3, <1>4, <1>5 DEF DInv

\* All is deleted.
LEMMA AllDeletedLife ==
  ASSUME IInv, NEW t \in Threads, DInv(t), AllDeleted(t)
  PROVE  DInv(t)'
<1>1. TypeInv /\ HoldsInv(t) /\ RegistryInv /\ OwnerInv /\ LifeInv(t) /\ AdminInv(t) /\ t # NoOne
  BY ThreadsAssumption DEF IInv, DInv
<1> USE ThreadsAssumption DEF AllDeleted, Goto, Take, Release, configVars, threadVars,
        TypeInv, Locks, Places
<1>2. RegistryInv'
  BY <1>1 DEF RegistryInv
<1>3. OwnerInv'
  BY <1>1 DEF OwnerInv
<1>4. LifeInv(t)'
  BY <1>1 DEF RegistryInv, OwnerInv, LifeInv, AdminInv, Clears, Mode
<1>5. AdminInv(t)'
  BY <1>1 DEF RegistryInv, OwnerInv, AdminInv, Mode, HoldsInv, Held
<1>6. QED
  BY <1>2, <1>3, <1>4, <1>5 DEF DInv

\* reopenAll() deletes nothing.
LEMMA CallAllLife ==
  ASSUME IInv, NEW t \in Threads, DInv(t),
         NEW all \in {"reopenAll", "closeAll"}, CallAll(t, all)
  PROVE  DInv(t)'
<1>1. TypeInv /\ HoldsInv(t) /\ RegistryInv /\ OwnerInv /\ LifeInv(t) /\ AdminInv(t) /\ t # NoOne
  BY ThreadsAssumption DEF IInv, DInv
<1> USE ThreadsAssumption DEF CallAll, Change, Goto, Take, Release, configVars, threadVars,
        TypeInv, Locks, Places
<1>2. RegistryInv'
  BY <1>1 DEF RegistryInv
<1>3. OwnerInv'
  BY <1>1 DEF OwnerInv
<1>4. LifeInv(t)'
  BY <1>1 DEF RegistryInv, OwnerInv, LifeInv, AdminInv, Clears, Mode
<1>5. AdminInv(t)'
  BY <1>1 DEF RegistryInv, OwnerInv, AdminInv, Mode, HoldsInv, Held
<1>6. QED
  BY <1>2, <1>3, <1>4, <1>5 DEF DInv

\* Nor do the calls it makes.
LEMMA CallNextLife ==
  ASSUME IInv, NEW t \in Threads, DInv(t), CallNext(t)
  PROVE  DInv(t)'
<1>1. TypeInv /\ HoldsInv(t) /\ RegistryInv /\ OwnerInv /\ LifeInv(t) /\ AdminInv(t) /\ t # NoOne
  BY ThreadsAssumption DEF IInv, DInv
<1> USE ThreadsAssumption DEF CallNext, Goto, Take, Release, configVars, threadVars,
        TypeInv, Locks, Places
<1>2. RegistryInv'
  BY <1>1 DEF RegistryInv
<1>3. OwnerInv'
  BY <1>1 DEF OwnerInv
<1>4. LifeInv(t)'
  BY <1>1 DEF RegistryInv, OwnerInv, LifeInv, AdminInv, Clears, Mode
<1>5. AdminInv(t)'
  BY <1>1 DEF RegistryInv, OwnerInv, AdminInv, Mode, HoldsInv, Held
<1>6. QED
  BY <1>2, <1>3, <1>4, <1>5 DEF DInv

\* Nor do their returns.
LEMMA CallReturnsLife ==
  ASSUME IInv, NEW t \in Threads, DInv(t), CallReturns(t)
  PROVE  DInv(t)'
<1>1. TypeInv /\ HoldsInv(t) /\ RegistryInv /\ OwnerInv /\ LifeInv(t) /\ AdminInv(t) /\ t # NoOne
  BY ThreadsAssumption DEF IInv, DInv
<1> USE ThreadsAssumption DEF CallReturns, Goto, Take, Release, configVars, threadVars,
        TypeInv, Locks, Places
<1>2. RegistryInv'
  BY <1>1 DEF RegistryInv
<1>3. OwnerInv'
  BY <1>1 DEF OwnerInv
<1>4. LifeInv(t)'
  BY <1>1 DEF RegistryInv, OwnerInv, LifeInv, AdminInv, Clears, Mode
<1>5. AdminInv(t)'
  BY <1>1 DEF RegistryInv, OwnerInv, AdminInv, Mode, HoldsInv, Held
<1>6. QED
  BY <1>2, <1>3, <1>4, <1>5 DEF DInv

\* Nor its end.
LEMMA AllCalledLife ==
  ASSUME IInv, NEW t \in Threads, DInv(t), AllCalled(t)
  PROVE  DInv(t)'
<1>1. TypeInv /\ HoldsInv(t) /\ RegistryInv /\ OwnerInv /\ LifeInv(t) /\ AdminInv(t) /\ t # NoOne
  BY ThreadsAssumption DEF IInv, DInv
<1> USE ThreadsAssumption DEF AllCalled, Goto, Take, Release, configVars, threadVars,
        TypeInv, Locks, Places
<1>2. RegistryInv'
  BY <1>1 DEF RegistryInv
<1>3. OwnerInv'
  BY <1>1 DEF OwnerInv
<1>4. LifeInv(t)'
  BY <1>1 DEF RegistryInv, OwnerInv, LifeInv, AdminInv, Clears, Mode
<1>5. AdminInv(t)'
  BY <1>1 DEF RegistryInv, OwnerInv, AdminInv, Mode, HoldsInv, Held
<1>6. QED
  BY <1>2, <1>3, <1>4, <1>5 DEF DInv

\* A thread that configures, whatever it does.
LEMMA ConfigLife ==
  ASSUME IInv, NEW t \in Threads, DInv(t), Configuring(t)
  PROVE  DInv(t)'
  BY NewAppenderLife, GetInstanceLife, setAdditivityLife, RemoveAllLife, RemoveAppenderLife,
     AddAppenderLife, DeleteLife, UnregisterLife, RemovedLife, ShutdownLife, ShutdownCategoryLife,
     ShutdownDoneLife, CollectLife, AllDeletedLife, CallAllLife, CallNextLife,
     CallReturnsLife, AllCalledLife
  DEF Configuring

\* A thread that logs changes nothing of the configuration, and goes to no place
\* where it would have to.
LEMMA LoggingQuiet ==
  ASSUME IInv, NEW u \in Threads, Logging(u)
  PROVE  /\ UNCHANGED <<known, attached, owns, life, registry, left, after>>
         /\ \A t \in Threads \ {u} :
              pc'[t] = pc[t] /\ cat'[t] = cat[t] /\ app'[t] = app[t] /\ todo'[t] = todo[t]
         /\ pc[u] \in Quiet /\ pc'[u] \in Quiet
         /\ lock'["maintainer"] = lock["maintainer"] /\ lock["maintainer"] # u
<1>1. TypeInv /\ HoldsInv(u) /\ u # NoOne
  BY ThreadsAssumption DEF IInv
<1> USE <1>1, ThreadsAssumption
    DEF Goto, Take, Release, configVars, TypeInv, HoldsInv, Held, Locks, Quiet
<1> DEFINE Goal ==
         /\ UNCHANGED <<known, attached, owns, life, registry, left, after>>
         /\ \A t \in Threads \ {u} :
              pc'[t] = pc[t] /\ cat'[t] = cat[t] /\ app'[t] = app[t] /\ todo'[t] = todo[t]
         /\ pc[u] \in Quiet /\ pc'[u] \in Quiet
         /\ lock'["maintainer"] = lock["maintainer"] /\ lock["maintainer"] # u
<1>2. ASSUME NEW c \in Cats, Log(u, c) PROVE Goal
  BY <1>2 DEF Log
<1>3. ASSUME LockCategory(u) PROVE Goal
  BY <1>3 DEF LockCategory
<1>4. ASSUME DoAppend(u) PROVE Goal
  BY <1>4 DEF DoAppend
<1>5. ASSUME Appended(u) PROVE Goal
  BY <1>5 DEF Appended
<1>6. ASSUME CallParent(u) PROVE Goal
  BY <1>6 DEF CallParent
<1>7. ASSUME CallsDone(u) PROVE Goal
  BY <1>7 DEF CallsDone
<1>8. ASSUME Return(u) PROVE Goal
  BY <1>8 DEF Return
<1> HIDE DEF Goto, Take, Release, configVars, TypeInv, HoldsInv, Held, Locks, Quiet, Goal
<1>9. Goal
  BY <1>2, <1>3, <1>4, <1>5, <1>6, <1>7, <1>8 DEF Logging
<1>10. QED
  BY <1>9 DEF Goal

\* A thread that logs, be it the one that configures or another.
LEMMA LoggingLife ==
  ASSUME IInv, NEW t \in Threads, DInv(t), NEW u \in Threads, Logging(u)
  PROVE  DInv(t)'
<1>1. /\ UNCHANGED <<known, attached, owns, life, registry, left, after>>
      /\ \A s \in Threads \ {u} :
           pc'[s] = pc[s] /\ cat'[s] = cat[s] /\ app'[s] = app[s] /\ todo'[s] = todo[s]
      /\ pc[u] \in Quiet /\ pc'[u] \in Quiet
      /\ lock'["maintainer"] = lock["maintainer"] /\ lock["maintainer"] # u
  BY LoggingQuiet
<1>2. RegistryInv /\ OwnerInv /\ LifeInv(t) /\ AdminInv(t)
  BY DEF DInv
<1>3. RegistryInv' /\ OwnerInv'
  BY <1>1, <1>2 DEF RegistryInv, OwnerInv
<1>4. CASE t = u
  <2>1. Mode(t) \in Quiet /\ Mode(t)' \in Quiet /\ pc'[t] # "unregister"
    BY <1>1, <1>4 DEF Mode, Quiet
  <2>2. LifeInv(t)'
    BY <1>1, <1>2, <2>1 DEF LifeInv, Clears, Quiet
  <2>3. AdminInv(t)'
    BY <1>1, <1>4, <2>1 DEF AdminInv, Quiet
  <2>4. QED
    BY <1>3, <2>2, <2>3 DEF DInv
<1>5. CASE t # u
  <2>1. /\ pc'[t] = pc[t] /\ cat'[t] = cat[t] /\ app'[t] = app[t] /\ todo'[t] = todo[t]
        /\ Mode(t)' = Mode(t)
    BY <1>1, <1>5 DEF Mode
  <2>2. LifeInv(t)'
    BY <1>1, <1>2, <2>1 DEF LifeInv, Clears
  <2>3. AdminInv(t)'
    BY <1>1, <1>2, <2>1 DEF AdminInv
  <2>4. QED
    BY <1>3, <2>2, <2>3 DEF DInv
<1>6. QED
  BY <1>4, <1>5

\* There are no appenders.
LEMMA InitLife ==
  ASSUME NEW t \in Threads, ThreadsInit
  PROVE  DInv(t)
<1>1. /\ lock = [l \in Locks |-> NoOne] /\ attached = [c \in Cats |-> {}]
      /\ owns = [c \in Cats |-> {}] /\ life = [a \in Appenders |-> "none"]
      /\ registry = [n \in Names |-> NoOne] /\ pc = [s \in Threads |-> "idle"]
  BY DEF ThreadsInit
<1>2. Mode(t) = "idle" /\ pc[t] = "idle" /\ lock["maintainer"] # t
  BY <1>1, ThreadsAssumption DEF Mode, Locks
<1>3. QED
  BY <1>1, <1>2 DEF DInv, RegistryInv, OwnerInv, LifeInv, AdminInv

\* With one thread that configures, whoever steps.
LEMMA NextLife ==
  ASSUME NEW t \in Threads, Admins \subseteq {t}, IInv, DInv(t), [ThreadsNext]_logVars
  PROVE  DInv(t)'
<1>1. CASE UNCHANGED logVars
  <2>1. /\ UNCHANGED <<lock, known, attached, owns, life, registry, pc, cat, app, todo, left>>
        /\ after' = after
    BY <1>1 DEF logVars, threadVars, configVars
  <2>2. Mode(t)' = Mode(t)
    BY <2>1 DEF Mode
  <2>3. RegistryInv' /\ OwnerInv'
    BY <2>1 DEF DInv, RegistryInv, OwnerInv
  <2>4. LifeInv(t)'
    BY <2>1, <2>2 DEF DInv, LifeInv, Clears
  <2>5. AdminInv(t)'
    BY <2>1, <2>2 DEF DInv, AdminInv
  <2>6. QED
    BY <2>3, <2>4, <2>5 DEF DInv
<1>2. ASSUME NEW u \in Threads, Logging(u) PROVE DInv(t)'
  BY <1>2, LoggingLife
<1>3. ASSUME NEW u \in Admins, Configuring(u) PROVE DInv(t)'
  BY <1>3, ConfigLife
<1>4. QED
  BY <1>1, <1>2, <1>3 DEF ThreadsNext

\* The other threads only log, the one appender that may be in its destructor is
\* the one the thread that configures waits to unregister, and reopenAll() and
\* closeAll() call what is registered.
CallsInv(t) ==
  /\ \A u \in Threads \ {t} : pc[u] \in Quiet
  /\ \A a \in Appenders : life[a] = "dying" => pc[t] = "unregister" /\ app[t] = a
  /\ pc[t] \in {"reopenAll", "reopen", "closeAll", "close"} => todo[t] \subseteq Registered
  /\ pc[t] \in {"reopen", "close"} => app[t] \in Registered

\* Every step of the thread that configures keeps that.
LEMMA ConfigCalls ==
  ASSUME IInv, NEW t \in Threads, DInv(t), CallsInv(t), Configuring(t)
  PROVE  CallsInv(t)'
<1>1. /\ pc \in [Threads -> Places] /\ app \in [Threads -> Appenders \cup {NoOne}]
      /\ todo \in [Threads -> SUBSET Appenders] /\ after \in [Threads -> Places]
      /\ life \in [Appenders -> {"none", "alive", "dying", "dead"}]
      /\ registry \in [Names -> Appenders \cup {NoOne}]
  BY DEF IInv, TypeInv, DInv, RegistryInv
<1>2. \A u \in Threads \ {t} : pc'[u] = pc[u]
  BY ConfigQuiet
<1>3. \A u \in Threads \ {t} : pc'[u] \in Quiet
  BY <1>2 DEF CallsInv
<1> DEFINE Rest == /\ \A a \in Appenders : life'[a] = "dying" => pc'[t] = "unregister" /\ app'[t] = a
                   /\ pc'[t] \in {"reopenAll", "reopen", "closeAll", "close"} =>
                        todo'[t] \subseteq Registered'
                   /\ pc'[t] \in {"reopen", "close"} => app'[t] \in Registered'
<1> USE <1>1 DEF Change, Goto, configVars, threadVars
<1>4. ASSUME NEW a0 \in Appenders, NewAppender(t, a0) PROVE Rest
  BY <1>4 DEF NewAppender, CallsInv
<1>5. ASSUME NEW c \in Cats, GetInstance(t, c) \/ setAdditivity(t, c) PROVE Rest
  BY <1>5 DEF GetInstance, setAdditivity, CallsInv
<1>6. ASSUME NEW c \in Cats, RemoveAll(t, c) PROVE Rest
  BY <1>6 DEF RemoveAll, CallsInv
<1>7. ASSUME NEW c \in Cats, NEW a0 \in Appenders,
             RemoveAppender(t, c, a0) \/ \E own \in BOOLEAN : AddAppender(t, c, a0, own)
      PROVE  Rest
  BY <1>7 DEF RemoveAppender, AddAppender, CallsInv
<1>8. ASSUME Delete(t) PROVE Rest
  BY <1>8 DEF Delete, CallsInv
<1>9. ASSUME Unregister(t) PROVE Rest
  <2>1. after[t] \in {"removeAppender", "removeAll", "deleteAll"} /\ app[t] \in Appenders
    BY <1>9 DEF Unregister, IInv, HoldsInv, DInv, AdminInv
  <2> QED BY <1>9, <2>1 DEF Unregister, CallsInv
<1>10. ASSUME Removed(t) PROVE Rest
  BY <1>10 DEF Removed, CallsInv
<1>11. ASSUME (\E force \in BOOLEAN : Shutdown(t, force)) \/ ShutdownCategory(t) \/ ShutdownDone(t)
       PROVE  Rest
  BY <1>11 DEF Shutdown, ShutdownCategory, ShutdownDone, CallsInv
<1>12. ASSUME Collect(t) \/ AllDeleted(t) PROVE Rest
  BY <1>12 DEF Collect, AllDeleted, CallsInv
<1>13. ASSUME NEW all \in {"reopenAll", "closeAll"}, CallAll(t, all) PROVE Rest
  BY <1>13 DEF CallAll, CallsInv, Registered
<1>14. ASSUME CallNext(t) \/ CallReturns(t) PROVE Rest
  BY <1>14 DEF CallNext, CallReturns, CallsInv, Registered
<1>15. ASSUME AllCalled(t) PROVE Rest
  BY <1>15 DEF AllCalled, CallsInv
<1> HIDE DEF Change, Goto, configVars, threadVars, Rest
<1>16. Rest
  BY <1>4, <1>5, <1>6, <1>7, <1>8, <1>9, <1>10, <1>11, <1>12, <1>13, <1>14, <1>15 DEF Configuring
<1> QED BY <1>3, <1>16 DEF CallsInv, Rest

\* So does every step, if only that thread configures.
LEMMA NextCalls ==
  ASSUME NEW t \in Threads, Admins \subseteq {t}, IInv, DInv(t), CallsInv(t),
         [ThreadsNext]_logVars
  PROVE  CallsInv(t)'
<1>1. CASE UNCHANGED logVars
  BY <1>1 DEF logVars, threadVars, configVars, CallsInv, Registered
<1>2. ASSUME NEW u \in Threads, Logging(u) PROVE CallsInv(t)'
  <2>1. /\ UNCHANGED <<life, registry>>
        /\ \A s \in Threads \ {u} : pc'[s] = pc[s] /\ app'[s] = app[s] /\ todo'[s] = todo[s]
        /\ pc[u] \in Quiet /\ pc'[u] \in Quiet
    BY <1>2, LoggingQuiet
  <2>2. \A s \in Threads \ {t} : pc'[s] \in Quiet
    BY <2>1 DEF CallsInv
  <2>3. Registered' = Registered
    BY <2>1 DEF Registered
  <2>4. CASE t = u
    BY <2>1, <2>2, <2>4 DEF CallsInv, Quiet
  <2>5. CASE t # u
    BY <2>1, <2>2, <2>3, <2>5 DEF CallsInv
  <2> QED BY <2>4, <2>5
<1>3. ASSUME NEW u \in Admins, Configuring(u) PROVE CallsInv(t)'
  BY <1>3, ConfigCalls
<1> QED BY <1>1, <1>2, <1>3 DEF ThreadsNext

\* The thread that is inside an appender has the mutex of the category it is
\* attached to, so that the thread that configures does not.
LEMMA LifeGivesNoneUsed ==
  ASSUME NEW t \in Threads, IInv, DInv(t), CallsInv(t)
  PROVE  NoneUsedAfterDelete
<1>1. RegistryInv /\ LifeInv(t) /\ TypeInv /\ HoldsInv(t)
  BY DEF IInv, DInv
<1>2. ASSUME NEW u \in Threads, pc[u] = "inside" PROVE life[app[u]] = "alive"
  <2>1. cat[u] \in Cats /\ app[u] \in attached[cat[u]] /\ lock[cat[u]] = u
    BY <1>1, <1>2 DEF IInv, TypeInv, HoldsInv, CallInv
  <2>2. ASSUME Clears(t, cat[u], app[u]) PROVE FALSE
    <3>1. cat[t] = cat[u] /\ Mode(t) \in {"removeAll", "removeAppender"}
      BY <2>2 DEF Clears
    <3>2. lock[cat[t]] = t /\ pc[t] # "inside"
      BY <1>1, <3>1 DEF HoldsInv, Mode
    <3>3. QED
      BY <1>2, <2>1, <3>1, <3>2
  <2>3. QED
    BY <1>1, <2>1, <2>2 DEF LifeInv
<1>3. \A n \in Names : registry[n] # NoOne => life[registry[n]] # "dead"
  BY <1>1 DEF RegistryInv
<1>4. ASSUME NEW u \in Threads, NEW a \in Appenders, pc[u] \in {"reopen", "close"}, app[u] = a
      PROVE  life[a] = "alive"
  <2>1. u = t /\ a \in Registered
    BY <1>4 DEF CallsInv, Quiet
  <2>2. life[a] \in {"alive", "dying"} /\ life[a] # "dying"
    BY <1>1, <1>4, <2>1 DEF CallsInv, RegistryInv, Registered
  <2> QED BY <2>2
<1>5. QED
  BY <1>2, <1>3, <1>4 DEF NoneUsedAfterDelete, Calls

\* For any hierarchy, any number of threads that log and one that also changes
\* the configuration: an event is given to no appender that is being deleted,
\* nor is such a one reopened or closed, and none that is dead is registered.
THEOREM NoAppenderUsedAfterDelete ==
  ASSUME NEW t \in Threads, Admins \subseteq {t}
  PROVE  ThreadsSpec => []NoneUsedAfterDelete
<1>1. ThreadsInit => DInv(t) /\ CallsInv(t)
  <2>1. ThreadsInit => CallsInv(t)
    BY DEF ThreadsInit, CallsInv, Quiet
  <2> QED BY <2>1, InitLife
<1>2. IInv /\ DInv(t) /\ CallsInv(t) /\ [ThreadsNext]_logVars => DInv(t)' /\ CallsInv(t)'
  BY NextLife, NextCalls
<1>3. IInv /\ DInv(t) /\ CallsInv(t) => NoneUsedAfterDelete
  BY LifeGivesNoneUsed
<1>4. QED
  BY <1>1, <1>2, <1>3, ThreadsInitInv, ThreadsNextInv, PTL DEF ThreadsSpec
=============================================================================
