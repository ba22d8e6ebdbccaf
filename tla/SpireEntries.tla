----------------------------- MODULE SpireEntries -----------------------------
(***************************************************************************)
(* scripts/ensure-spire-entries.sh on one cluster: the node alias, the     *)
(* entries of the generated list, the gate that counts them.  Every        *)
(* command goes through spire_server_exec, which tries again while the API *)
(* server cannot be talked to; a command whose answer is lost may have     *)
(* been carried out.                                                       *)
(*                                                                         *)
(* The run starts on whatever is in the datastore: nothing, entries of an  *)
(* earlier list, entries with another TTL, a backup put back.  The         *)
(* datastore may be lost at any time.                                      *)
(***************************************************************************)
EXTENDS Naturals, FiniteSets

CONSTANTS
    Workloads,      \* everything that ever had an entry
    Listed,         \* spire-entries.generated.sh, the expected count with it
    ApiRetries

ASSUME ListedAssumption == Listed \subseteq Workloads /\ IsFiniteSet(Workloads)
ASSUME ApiRetriesAssumption == ApiRetries \in Nat \ {0}

VARIABLES
    entries,    \* the datastore: no entry, one with this run's TTL, one with another
    alias,      \* the entry of the node alias, the parent of all of them
    todo,       \* the workloads still to register
    call,       \* the command under way: cmd, w, tries; cmd "exit" at the end
    passed,     \* the run's outcome, once it has one
    unread,     \* ghost: workloads whose entry could not be read back
    lost        \* ghost: the datastore was lost, and when: "no", "during", "since"

spireVars == <<entries, alias, todo, call, passed, unread, lost>>

\* In a call that is about no workload, w is any of the list.
Call(cmd, w) == [cmd |-> cmd, w |-> w, tries |-> 0]
AnyListed    == CHOOSE w \in Listed : TRUE

SpireInit ==
    /\ entries \in [Workloads -> {"none", "other", "ttl"}]
    /\ alias \in BOOLEAN
    /\ todo = Listed
    /\ call = Call("alias", AnyListed)
    /\ passed = FALSE
    /\ unread = {}
    /\ lost = "no"

Present == {w \in Workloads : entries[w] # "none"}

-----------------------------------------------------------------------------
\* The end of a command.

\* The next workload of the list, the count after the last one.
GoOn(rest) ==
    /\ todo' = rest
    /\ IF rest = {} THEN call' = Call("count", AnyListed)
                    ELSE \E w \in rest : call' = Call("create", w)
    /\ UNCHANGED passed

Exit(ok) ==
    /\ call' = Call("exit", AnyListed)
    /\ passed' = ok
    /\ UNCHANGED todo

\* set -e ends the run at a command that failed -- but for the reading of an
\* entry, after which it passes for converged, and the count, which then is 0.
Failed ==
    IF call.cmd = "show"
    THEN unread' = unread \cup {call.w} /\ GoOn(todo \ {call.w})
    ELSE Exit(FALSE) /\ UNCHANGED unread

\* What the server does when a command reaches it.
Perform ==
    /\ entries' = CASE call.cmd = "create" /\ entries[call.w] = "none"
                         -> [entries EXCEPT ![call.w] = "ttl"]
                    [] call.cmd = "update" /\ entries[call.w] # "none"
                         -> [entries EXCEPT ![call.w] = "ttl"]
                    [] OTHER -> entries
    /\ alias' = (alias \/ call.cmd = "alias")

-----------------------------------------------------------------------------
\* Answers.

RegisterAlias ==
    /\ call.cmd = "alias"
    /\ Perform
    /\ GoOn(Listed)
    /\ UNCHANGED <<unread, lost>>

\* AlreadyExists -- also of an entry this very command created -- goes on to
\* the TTL.
CreateEntry ==
    /\ call.cmd = "create"
    /\ Perform
    /\ IF entries[call.w] = "none"
       THEN GoOn(todo \ {call.w})
       ELSE /\ call' = Call("show", call.w)
            /\ UNCHANGED <<todo, passed>>
    /\ UNCHANGED <<unread, lost>>

\* An entry that is gone has no id, and passes for converged too.
ShowEntry ==
    /\ call.cmd = "show"
    /\ IF entries[call.w] = "other"
       THEN call' = Call("update", call.w) /\ UNCHANGED <<todo, passed>>
       ELSE GoOn(todo \ {call.w})
    /\ UNCHANGED <<entries, alias, unread, lost>>

UpdateEntry ==
    /\ call.cmd = "update"
    /\ Perform
    /\ IF entries[call.w] = "none" THEN Exit(FALSE) ELSE GoOn(todo \ {call.w})
    /\ UNCHANGED <<unread, lost>>

\* Mutant: the list that was registered is taken for what is there.
CountEntriesTrusts ==
    /\ call.cmd = "count"
    /\ Exit(TRUE)
    /\ UNCHANGED <<entries, alias, unread, lost>>

\* count_entries_matching: every workload of the cluster counts, listed or not.
CountEntries ==
    /\ call.cmd = "count"
    /\ Exit(Cardinality(Present) >= Cardinality(Listed))
    /\ UNCHANGED <<entries, alias, unread, lost>>

\* No answer: the connection broke before the command or after it.
LoseAnswer ==
    /\ call.cmd # "exit"
    /\ Perform \/ UNCHANGED <<entries, alias>>
    /\ IF call.tries + 1 < ApiRetries
       THEN /\ call' = [call EXCEPT !.tries = @ + 1]
            /\ UNCHANGED <<todo, passed, unread>>
       ELSE Failed
    /\ UNCHANGED lost

\* An error that is no connection's: no pod, a server that refuses.
RefuseCommand ==
    /\ call.cmd # "exit"
    /\ Failed
    /\ UNCHANGED <<entries, alias, lost>>

\* The hostPath of the server is lost and the server starts on an empty one.
LoseDatastore ==
    /\ lost # "since"
    /\ entries' = [w \in Workloads |-> "none"]
    /\ alias' = FALSE
    /\ lost' = IF call.cmd = "exit" THEN "since" ELSE "during"
    /\ UNCHANGED <<todo, call, passed, unread>>

SpireNext ==
    \/ RegisterAlias
    \/ CreateEntry
    \/ ShowEntry
    \/ UpdateEntry
    \/ CountEntries
    \/ LoseAnswer
    \/ RefuseCommand
    \/ LoseDatastore

SpireSpec == SpireInit /\ [][SpireNext]_spireVars

-----------------------------------------------------------------------------
\* A run that says "verified OK" leaves every workload of the list with an
\* entry, even if the datastore was lost while it ran, answers were lost, and
\* entries of workloads no longer listed swell the count.  If the datastore
\* was not lost, the alias they hang on is there too, and every entry has the
\* TTL but those that could not be read back.  (ensure-spire-entries.sh:160,
\* "as a final sanity gate so an empty/wiped datastore is caught"; :124.)
GateMeansRegistered ==
    passed /\ lost # "since" =>
        /\ Listed \subseteq Present
        /\ lost = "no" => alias /\ \A w \in Listed : entries[w] = "ttl" \/ w \in unread
=============================================================================
