------------------------------ MODULE Lifetimes ------------------------------
(***************************************************************************)
(* LifetimeImpl: lifetimes, nested in one another, that several threads    *)
(* add actions to and terminate.  Everything in the plug-in that is to be  *)
(* undone hangs on such an action.                                         *)
(*                                                                         *)
(* LifetimeDefinition(parent), create_nested and the destructors come down *)
(* to attach_nested and terminate.  A map of actions is a sequence here:   *)
(* their numbers only grow.                                                *)
(***************************************************************************)
EXTENDS Integers, Sequences, SequencesExt, FiniteSets

CONSTANTS
  Life,             \* lifetimes, made one after the other
  Root,             \* the first of them
  Worker,           \* the threads
  MaxActions        \* bound: actions added by users

VARIABLES
  terminated,       \* terminated[l]
  actions,          \* actions[l]
  running,          \* running[w]: the calls of terminate under way, the innermost last
  doing,            \* doing[w]: what w is in the middle of
  made,             \* lifetimes whose construction is complete
  parent,           \* parent[l]: what l was attached to, NoLife for none
  holder,           \* holder[n]: the lifetime that the id a user has of action n is of
  added,            \* history: users' actions, numbered from 1, that were to be added
  halfOpen,         \* history: those of brackets that were opened and could not be closed
  before,           \* history: before[l], the actions l's end was put behind in its parent
  ran,              \* history: how often each action was run
  removed,          \* history: those taken out before they were run
  race              \* history: a map was used under its lock and without it at once

lifeVars == <<terminated, actions, running, doing, made, parent, holder, added, halfOpen,
              before, ran, removed, race>>
lifePast == <<added, halfOpen, before>>
idVars == <<holder, removed>>

NoLife == "none"

ASSUME LifeAssumption == Root \in Life /\ NoLife \notin Life /\ MaxActions \in Nat

Idle == [at |-> "idle", of |-> NoLife]

User(n) == [do |-> "user", n |-> n]
End(c) == [do |-> "terminate", of |-> c]
Forget(c) == [do |-> "erase", of |-> c]

LifeInit ==
  /\ terminated = [l \in Life |-> FALSE]
  /\ actions = [l \in Life |-> <<>>]
  /\ running = [w \in Worker |-> <<>>]
  /\ doing = [w \in Worker |-> Idle]
  /\ made = {Root} /\ parent = [l \in Life |-> NoLife]
  /\ holder = [n \in 1..MaxActions |-> NoLife] /\ removed = {}
  /\ added = 0 /\ halfOpen = {} /\ before = [l \in Life |-> {}]
  /\ ran = [n \in 1..MaxActions |-> 0] /\ race = FALSE

-----------------------------------------------------------------------------
Free(w) == running[w] = <<>> /\ doing[w] = Idle

\* w uses the map of l while another thread is erasing from it without the lock.
Races(w, l) == race \/ \E u \in Worker \ {w} : doing[u].at = "erase" /\ doing[u].of = l

Added(l, a) == actions' = [actions EXCEPT ![l] = Append(@, a)]

\* A faulty Accepts: add_action does not look whether the lifetime is over.
Accepts_Always(l) == TRUE

\* add_action looks under the lock, and throws.
Accepts(l) == ~terminated[l]

AddUserAction(w, l) ==
  /\ Free(w) /\ l \in made /\ added < MaxActions /\ Accepts(l)
  /\ added' = added + 1
  /\ Added(l, User(added'))
  /\ holder' = [holder EXCEPT ![added'] = l]
  /\ race' = Races(w, l)
  /\ UNCHANGED <<terminated, running, doing, made, parent, halfOpen, before, ran, removed>>

\* What erase leaves of a map: its one element a, if it is there, is taken out.
Erased(q, a) ==
  IF a \in Range(q) THEN RemoveAt(q, CHOOSE i \in DOMAIN q : q[i] = a) ELSE q

(***************************************************************************)
(* remove_action, under the lock: what a destroyed task does with the id   *)
(* that add_action gave it.  The action may have been taken already, by a  *)
(* terminate that will run it or has.                                      *)
(***************************************************************************)
RemoveAction(w, n) ==
  /\ Free(w) /\ n \in 1..added /\ holder[n] # NoLife
  /\ holder' = [holder EXCEPT ![n] = NoLife]
  /\ actions' = [actions EXCEPT ![holder[n]] = Erased(@, User(n))]
  /\ removed' = IF User(n) \in Range(actions[holder[n]]) THEN removed \cup {n} ELSE removed
  /\ race' = Races(w, holder[n])
  /\ UNCHANGED <<terminated, running, doing, made, parent, added, halfOpen, before, ran>>

(***************************************************************************)
(* bracket looks without the lock, opens, and adds the closing action.     *)
(***************************************************************************)
OpenBracket(w, l) ==
  /\ Free(w) /\ l \in made /\ added < MaxActions /\ ~terminated[l]
  /\ added' = added + 1
  /\ doing' = [doing EXCEPT ![w] = [at |-> "bracket", of |-> l, n |-> added']]
  /\ UNCHANGED <<terminated, actions, running, made, parent, holder, halfOpen, before, ran,
                 removed, race>>

CloseBracket(w) ==
  /\ doing[w].at = "bracket"
  /\ LET l == doing[w].of IN
       /\ IF Accepts(l) THEN Added(l, User(doing[w].n)) /\ UNCHANGED halfOpen
                        ELSE halfOpen' = halfOpen \cup {doing[w].n} /\ UNCHANGED actions
       /\ race' = Races(w, l)
  /\ doing' = [doing EXCEPT ![w] = Idle]
  /\ UNCHANGED <<terminated, running, made, parent, holder, added, before, ran, removed>>

(***************************************************************************)
(* attach_nested: the nested one's end becomes an action of the parent ... *)
(***************************************************************************)
AttachNested(w, p, c) ==
  /\ Free(w) /\ p \in made /\ Accepts(p)
  /\ c # Root /\ parent[c] = NoLife
  /\ parent' = [parent EXCEPT ![c] = p]
  /\ before' = [before EXCEPT ![c] = {n \in 1..added : User(n) \in Range(actions[p])}]
  /\ Added(p, End(c))
  /\ doing' = [doing EXCEPT ![w] = [at |-> "attach", of |-> p, nested |-> c]]
  /\ race' = Races(w, p)
  /\ UNCHANGED <<terminated, running, made, holder, added, halfOpen, ran, removed>>

\* ... and to be forgotten there an action of its own; the parent may have ended it.
AttachEnds(w) ==
  /\ doing[w].at = "attach"
  /\ LET c == doing[w].nested IN
       IF Accepts(c) THEN Added(c, Forget(c)) /\ made' = made \cup {c}
                     ELSE UNCHANGED <<actions, made>>
  /\ doing' = [doing EXCEPT ![w] = Idle]
  /\ UNCHANGED <<terminated, running, parent, lifePast, idVars, ran, race>>

-----------------------------------------------------------------------------
\* terminate: the flag, ...
Call(w, l, calls) ==
  /\ terminated' = [terminated EXCEPT ![l] = TRUE]
  /\ running' = [running EXCEPT ![w] = Append(calls, [of |-> l, taken |-> FALSE, todo |-> <<>>])]

TerminateLife(w, l) ==
  /\ Free(w) /\ l \in made
  /\ Call(w, l, <<>>)
  /\ UNCHANGED <<actions, doing, made, parent, lifePast, idVars, ran, race>>

\* ... the actions, moved out under the lock, ...
TakeActions(w) ==
  /\ running[w] # <<>> /\ doing[w] = Idle /\ ~Last(running[w]).taken
  /\ LET l == Last(running[w]).of IN
       /\ running' = [running EXCEPT ![w][Len(running[w])] =
                        [of |-> l, taken |-> TRUE, todo |-> actions[l]]]
       /\ actions' = [actions EXCEPT ![l] = <<>>]
       /\ race' = Races(w, l)
  /\ UNCHANGED <<terminated, doing, made, parent, lifePast, idVars, ran>>

\* A faulty NextPlace: the actions are run in the order they were added in.
NextPlace_First(todo) == 1

\* ... which are run from the last to the first: rbegin to rend.
NextPlace(todo) == Len(todo)

RunNext(w) ==
  /\ running[w] # <<>> /\ doing[w] = Idle
  /\ LET top == Last(running[w])
         i == NextPlace(top.todo)
         a == top.todo[i]
         calls == [running[w] EXCEPT ![Len(running[w])].todo = RemoveAt(@, i)] IN
       /\ top.taken /\ top.todo # <<>>
       /\ \/ /\ a.do = "user"
             /\ ran' = [ran EXCEPT ![a.n] = @ + 1]
             /\ running' = [running EXCEPT ![w] = calls]
             /\ UNCHANGED <<terminated, doing, race>>
          \/ /\ a.do = "terminate"
             /\ Call(w, a.of, calls)
             /\ UNCHANGED <<doing, ran, race>>
          \/ /\ a.do = "erase"
             /\ doing' = [doing EXCEPT ![w] = [at |-> "erase", of |-> parent[a.of], nested |-> a.of]]
             /\ race' = Races(w, parent[a.of])
             /\ running' = [running EXCEPT ![w] = calls]
             /\ UNCHANGED <<terminated, ran>>
  /\ UNCHANGED <<actions, made, parent, lifePast, idVars>>

\* actions.erase(id), without the lock
EraseEnds(w) ==
  /\ doing[w].at = "erase"
  /\ actions' = [actions EXCEPT ![doing[w].of] = Erased(@, End(doing[w].nested))]
  /\ doing' = [doing EXCEPT ![w] = Idle]
  /\ UNCHANGED <<terminated, running, made, parent, lifePast, idVars, ran, race>>

Returns(w) ==
  /\ running[w] # <<>> /\ doing[w] = Idle
  /\ Last(running[w]).taken /\ Last(running[w]).todo = <<>>
  /\ running' = [running EXCEPT ![w] = Front(@)]
  /\ UNCHANGED <<terminated, actions, doing, made, parent, lifePast, idVars, ran, race>>

\* What follows a race on a map is undefined: nothing is said of it.
LifeNext ==
  /\ ~race
  /\ \E w \in Worker :
       \/ \E l \in Life : AddUserAction(w, l) \/ OpenBracket(w, l) \/ TerminateLife(w, l)
       \/ \E n \in 1..added : RemoveAction(w, n)
       \/ \E p, c \in Life : AttachNested(w, p, c)
       \/ CloseBracket(w) \/ AttachEnds(w)
       \/ TakeActions(w) \/ RunNext(w) \/ EraseEnds(w) \/ Returns(w)

-----------------------------------------------------------------------------
LifeTypeOK ==
  /\ terminated \in [Life -> BOOLEAN] /\ made \subseteq Life
  /\ parent \in [Life -> Life \cup {NoLife}]
  /\ added \in 0..MaxActions /\ halfOpen \cup removed \subseteq 1..added
  /\ \A l \in Life : terminated[l] => l \in made \/ parent[l] # NoLife

\* Where actions wait: <<l, 0>> is the map of l, <<w, k>> the k-th call of terminate of w.
Waits ==
  [at \in (Life \X {0}) \cup UNION {{w} \X DOMAIN running[w] : w \in Worker} |->
     IF at[2] = 0 THEN actions[at[1]] ELSE running[at[1]][at[2]].todo]

\* How often action n waits.
Waiting(n) ==
  Cardinality(UNION {{at} \X {i \in DOMAIN Waits[at] : Waits[at][i] = User(n)} :
                       at \in DOMAIN Waits})

Closing(n) == n \in halfOpen \/ \E w \in Worker : doing[w].at = "bracket" /\ doing[w].n = n

\* A call of terminate has set the flag of l and not yet taken its actions.
Ending(l) ==
  \E w \in Worker : \E k \in DOMAIN running[w] : running[w][k].of = l /\ ~running[w][k].taken

(***************************************************************************)
(* Whatever threads add and remove actions and terminate at once, an       *)
(* action that was accepted waits, or was removed in time and is never     *)
(* run, or has been run, once; and none is left in a lifetime that has     *)
(* ended.  A bracket may stay open when its lifetime is terminated between *)
(* the look and the add_action, which throws.                              *)
(***************************************************************************)
ActionsRunOnce ==
  ~race =>
    /\ \A n \in 1..added :
         Waiting(n) + ran[n] + (IF Closing(n) \/ n \in removed THEN 1 ELSE 0) = 1
    /\ \A l \in Life : terminated[l] /\ ~Ending(l) => actions[l] = <<>>

(***************************************************************************)
(* What a lifetime had when another was nested in it is not undone under   *)
(* the nested one's feet: that one is terminated first, though, if another *)
(* thread terminates it, its own actions need not all have been run.       *)
(***************************************************************************)
ChildEndsFirst ==
  ~race => \A c \in Life : \A n \in before[c] : ran[n] > 0 => terminated[c]
=============================================================================
