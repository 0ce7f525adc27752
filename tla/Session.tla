------------------------------ MODULE Session ------------------------------
(***************************************************************************)
(* The I/O session (io/session.hpp) with its clients (io/client.hpp): the  *)
(* session file lists, by group, the data files that were written and the  *)
(* file of another group that each of them depends on.                     *)
(*                                                                         *)
(* Every rank of the communicator runs the same program with a session of  *)
(* its own in memory, and every rank writes the files.  Only the tests for *)
(* existing files and their removal are collectives (utility/mpi/comm.hpp).*)
(* A program ends at any time and is launched again; the disk stays.       *)
(***************************************************************************)
EXTENDS Integers, Sequences, FiniteSetsExt, Functions, TLC

CONSTANTS
  Group,        \* names of the file groups
  Dependency,   \* the group each one depends on
  NoGroup,      \* ... for those that depend on none
  NoRanks,      \* sizes of the communicator
  Directories,  \* where the session is: the directory of the program is "."
  MaxFiles,     \* how many files a group has at most
  MaxRuns       \* how often the program is launched at most

ASSUME SessionAssumption ==
  /\ IsFiniteSet(Group) /\ NoGroup \notin Group
  /\ Dependency \in [Group -> Group \cup {NoGroup}]
  /\ NoRanks \subseteq Nat \ {0} /\ MaxFiles \in Nat /\ MaxRuns \in Nat

VARIABLES
  no_ranks,    \* the size of the communicator
  directory,   \* where the session file is
  session,     \* the session file: is it there and whole, how much does it hold
  data,        \* the data files by directory, group and index
  runs,        \* how often the program was launched
  mode,        \* what the program does first: "create", "restart", "remove"
  script,      \* what the program does then, as far as a rank has come
  broadcasts,  \* what the root has sent in this run
  rank,        \* the state of every rank
  saved        \* history: the files whose write has returned on all ranks

vars == <<no_ranks, directory, session, data, runs, mode, script, broadcasts, rank, saved>>

Ranks == 0 .. no_ranks - 1
root == 0

(* A rank: where it is, its session, how far it has come in the script, the  *)
(* file it writes, and what the collectives have returned to it.             *)
Down == [at |-> "down", groups |-> <<>>, position |-> 0, file |-> <<>>, results |-> <<>>]

(* A function, with a value for one more point or a new one for an old point. *)
With(f, x, value) ==
  [y \in DOMAIN f \cup {x} |-> IF y = x THEN value ELSE f[y]]

Absent == [exists |-> FALSE, whole |-> FALSE, length |-> 0, groups |-> <<>>]
Truncated == [Absent EXCEPT !.exists = TRUE]

no_files(groups) ==
  Cardinality(UNION {{g} \X DOMAIN groups[g] : g \in DOMAIN groups})

(* A fatal error, or an exception that nobody catches, ends all ranks. *)
Terminated == [r \in Ranks |-> [rank[r] EXCEPT !.at = "down"]]

-----------------------------------------------------------------------------
(* Collectives: the root computes and sends the result, the others take the  *)
(* next one sent.                                                            *)

Arrived(r) ==
  r = root \/ Len(rank[r].results) < Len(broadcasts)

root_do(r, value) == IF r = root THEN value ELSE broadcasts[Len(rank[r].results) + 1]

Send(r, values) == IF r = root THEN broadcasts \o values ELSE broadcasts

Launch(m) ==
  /\ \A r \in Ranks : rank[r].at = "down"
  /\ runs < MaxRuns
  /\ runs' = runs + 1
  /\ mode' = m
  /\ script' = <<>>
  /\ broadcasts' = <<>>
  /\ rank' = [r \in Ranks |->
                [Down EXCEPT !.at = IF m = "remove" THEN "remove" ELSE "exists"]]
  /\ UNCHANGED <<no_ranks, directory, session, data, saved>>

(* session::remove: what the root does calls exists, which sends its own      *)
(* result first; the other ranks take that one.                               *)
remove(r) ==
  /\ rank[r].at = "remove" /\ Arrived(r)
  /\ LET result == root_do(r, session.exists)
     IN  rank' = [rank EXCEPT ![r].at = "exists", ![r].results = Append(@, result)]
  /\ broadcasts' = Send(r, <<session.exists, session.exists>>)
  /\ session' = IF r = root THEN Absent ELSE session
  /\ saved' = IF r = root THEN {} ELSE saved
  /\ UNCHANGED <<no_ranks, directory, data, runs, mode, script>>

(* Bug: the root does not send what it finds absent. *)
existsUnsent(r) ==
  /\ rank[r].at = "exists" /\ Arrived(r)
  /\ LET result == root_do(r, session.exists)
         got == [rank EXCEPT ![r].results = Append(@, result)]
     IN  rank' = IF result # (mode = "restart") THEN [q \in Ranks |-> [got[q] EXCEPT !.at = "down"]]
                 ELSE [got EXCEPT ![r].at = IF mode = "restart" THEN "read" ELSE "ready"]
  /\ broadcasts' = Send(r, IF session.exists THEN <<TRUE>> ELSE <<>>)
  /\ UNCHANGED <<no_ranks, directory, session, data, runs, mode, script, saved>>

(* set_file: a new session must not exist, one to restart from must. *)
exists(r) ==
  /\ rank[r].at = "exists" /\ Arrived(r)
  /\ LET result == root_do(r, session.exists)
         got == [rank EXCEPT ![r].results = Append(@, result)]
     IN  rank' = IF result # (mode = "restart") THEN [q \in Ranks |-> [got[q] EXCEPT !.at = "down"]]
                 ELSE [got EXCEPT ![r].at = IF mode = "restart" THEN "read" ELSE "ready"]
  /\ broadcasts' = Send(r, <<session.exists>>)
  /\ UNCHANGED <<no_ranks, directory, session, data, runs, mode, script, saved>>

(* read_whole tests once more; then each rank reads and parses for itself. *)
read_whole(r) ==
  /\ rank[r].at = "read" /\ Arrived(r)
  /\ rank' = IF root_do(r, session.exists) /\ session.whole
             THEN [rank EXCEPT ![r].at = "ready", ![r].groups = session.groups,
                               ![r].results = Append(@, TRUE)]
             ELSE Terminated
  /\ broadcasts' = Send(r, <<session.exists>>)
  /\ UNCHANGED <<no_ranks, directory, session, data, runs, mode, script, saved>>

-----------------------------------------------------------------------------
(* The program: the rank that is ahead makes it up, the others do the same. *)

Does(r, what) ==
  /\ rank[r].at = "ready"
  /\ \/ rank[r].position < Len(script) /\ script[rank[r].position + 1] = what
        /\ UNCHANGED script
     \/ rank[r].position = Len(script) /\ script' = Append(script, what)

(* A client registers its group unless the session has it. *)
push_group(r, g) ==
  /\ g \notin DOMAIN rank[r].groups
  /\ Dependency[g] \in DOMAIN rank[r].groups \cup {NoGroup}
  /\ Does(r, <<"register", g>>)
  /\ rank' = [rank EXCEPT ![r].position = @ + 1, ![r].groups = With(@, g, <<>>)]
  /\ UNCHANGED <<no_ranks, directory, session, data, runs, mode, broadcasts, saved>>

(* Bugs: a file is numbered from the files that were written in this run; it  *)
(* depends on the file that comes next.                                      *)
IndexInRun(r, g) ==
  Cardinality({k \in 1 .. rank[r].position : script[k] = <<"write", g>>})
DependencyOnNext(r, g) == Len(rank[r].groups[Dependency[g]])

(* The index of the next file, and of the file it depends on. *)
index(r, g) == Len(rank[r].groups[g])
dependency_index(r, g) == Len(rank[r].groups[Dependency[g]]) - 1

(* new_file leaves the directory of the file empty. *)
file_path(g, i) == <<".", g, i>>

(* write, first part: the file gets its index and that of its dependency,     *)
(* which must have a file, and is opened for writing, in the directory of the *)
(* program.  What it held is gone.                                            *)
write(r, g) ==
  /\ g \in DOMAIN rank[r].groups
  /\ index(r, g) < MaxFiles
  /\ Dependency[g] # NoGroup => rank[r].groups[Dependency[g]] # <<>>
  /\ Does(r, <<"write", g>>)
  /\ LET file == [group |-> g, index |-> index(r, g),
                  dependency |-> IF Dependency[g] = NoGroup THEN -1
                                 ELSE dependency_index(r, g)]
     IN  /\ rank' = [rank EXCEPT ![r].at = "data", ![r].file = file]
         /\ data' = With(data, file_path(g, file.index), [whole |-> FALSE])
  /\ UNCHANGED <<no_ranks, directory, session, runs, mode, broadcasts, saved>>

(* The arrays of the file, as of this run. *)
write_data(r) ==
  /\ rank[r].at = "data"
  /\ LET file == rank[r].file
     IN  data' = With(data, file_path(file.group, file.index),
                      [whole |-> TRUE, dependency |-> file.dependency, run |-> runs])
  /\ rank' = [rank EXCEPT ![r].at = "push"]
  /\ UNCHANGED <<no_ranks, directory, session, runs, mode, script, broadcasts, saved>>

(* Bug: the data need not be there. *)
pushUnwaited(r) ==
  /\ rank[r].at \in {"data", "push"}
  /\ rank' = [rank EXCEPT ![r].at = "save",
                          ![r].groups[rank[r].file.group] = Append(@, rank[r].file.dependency)]
  /\ session' = Truncated
  /\ UNCHANGED <<no_ranks, directory, data, runs, mode, script, broadcasts, saved>>

(* The file joins its group in memory, and the session file is opened. *)
push(r) ==
  /\ rank[r].at = "push"
  /\ rank' = [rank EXCEPT ![r].at = "save",
                          ![r].groups[rank[r].file.group] = Append(@, rank[r].file.dependency)]
  /\ session' = Truncated
  /\ UNCHANGED <<no_ranks, directory, data, runs, mode, script, broadcasts, saved>>

(* Bug: all ranks open the session file, the root alone writes it. *)
saveAtRoot(r) ==
  /\ rank[r].at = "save"
  /\ session' = IF r # root THEN session
                ELSE [exists |-> TRUE, whole |-> TRUE,
                      length |-> no_files(rank[r].groups), groups |-> rank[r].groups]
  /\ rank' = [rank EXCEPT ![r].at = "ready", ![r].position = @ + 1, ![r].file = <<>>]
  /\ saved' = IF \A q \in Ranks : rank'[q].position >= rank'[r].position
              THEN saved \cup {rank[r].file} ELSE saved
  /\ UNCHANGED <<no_ranks, directory, data, runs, mode, script, broadcasts>>

(* The session is written over what is in the file: another rank that opened  *)
(* it later may have written more.                                            *)
save(r) ==
  /\ rank[r].at = "save"
  /\ LET length == no_files(rank[r].groups)
     IN  session' = [exists |-> TRUE, whole |-> length >= session.length,
                     length |-> Max({length, session.length}),
                     groups |-> rank[r].groups]
  /\ rank' = [rank EXCEPT ![r].at = "ready", ![r].position = @ + 1, ![r].file = <<>>]
  /\ saved' = IF \A q \in Ranks : rank'[q].position >= rank'[r].position
              THEN saved \cup {rank[r].file} ELSE saved
  /\ UNCHANGED <<no_ranks, directory, data, runs, mode, script, broadcasts>>

(* The program ends, or is ended. *)
Crash ==
  /\ \E r \in Ranks : rank[r].at # "down"
  /\ rank' = Terminated
  /\ UNCHANGED <<no_ranks, directory, session, data, runs, mode, script, broadcasts, saved>>

-----------------------------------------------------------------------------
Init ==
  /\ no_ranks \in NoRanks /\ directory \in Directories
  /\ session = Absent
  /\ data = <<>>
  /\ runs = 0 /\ mode = "create" /\ script = <<>> /\ broadcasts = <<>>
  /\ rank = [r \in Ranks |-> Down]
  /\ saved = {}

Step(r) ==
  \/ remove(r) \/ exists(r) \/ read_whole(r)
  \/ write_data(r) \/ push(r) \/ save(r)

Operation(r) == \E g \in Group : push_group(r, g) \/ write(r, g)

(* Several ranks: a restart is a race between the ranks that read the session *)
(* and those that write it, and remove confuses the collectives.              *)
Start ==
  \E m \in {"create", "restart", "remove"} :
    (m = "create" \/ no_ranks = 1) /\ Launch(m)

Next ==
  \/ Start
  \/ \E r \in Ranks : Step(r) \/ Operation(r)
  \/ Crash

(* A rank goes on with what it has begun. *)
Fairness == \A r \in 0 .. Max(NoRanks) - 1 : WF_vars(r \in Ranks /\ Step(r))

Spec == Init /\ [][Next]_vars /\ Fairness

(* All that the program can do. *)
SpecAll ==
  Init /\ [][Next \/ \E m \in {"restart", "remove"} : Launch(m)]_vars

-----------------------------------------------------------------------------
(* Properties. *)

AtRest ==
  /\ \A r \in Ranks : rank[r].at = "ready"
  /\ \A q, r \in Ranks : rank[q].position = rank[r].position

Listed(groups) ==
  UNION {{[group |-> g, index |-> k - 1, dependency |-> groups[g][k]] :
            k \in DOMAIN groups[g]} : g \in DOMAIN groups}

(* A session file that can be parsed lists no file whose data are missing,    *)
(* incomplete or made for another dependency, whenever the program ended; for *)
(* several ranks, when they are between two operations.                       *)
ListedWhole ==
  session.whole /\ (no_ranks = 1 \/ AtRest) =>
    \A f \in Listed(session.groups) :
      LET path == <<directory, f.group, f.index>>
      IN  /\ path \in DOMAIN data /\ data[path].whole
          /\ data[path].dependency = f.dependency

(* A file depends on one that is listed, and not on an older one than the    *)
(* file before it did.                                                       *)
DependenciesListed ==
  session.whole =>
    \A f \in Listed(session.groups) :
      Dependency[f.group] # NoGroup =>
        /\ f.dependency \in 0 .. Len(session.groups[Dependency[f.group]]) - 1
        /\ \A e \in Listed(session.groups) :
             e.group = f.group /\ e.index < f.index => e.dependency <= f.dependency

(* What was saved on all ranks is in the session file, through crashes and    *)
(* restarts, unless a crash left the file unreadable, and its data are never  *)
(* written again.                                                             *)
SavedKept ==
  [][/\ session'.whole => saved' \subseteq Listed(session.groups)'
     /\ \A f \in saved \cap saved' :
          LET path == <<".", f.group, f.index>>
          IN  data'[path] = data[path]]_vars

(* Ranks at rest hold the same session, which is the one on disk.             *)
RanksAgree ==
  AtRest =>
    /\ \A q, r \in Ranks : rank[q].groups = rank[r].groups
    /\ script # <<>> /\ script[Len(script)][1] = "write"
         /\ rank[root].position = Len(script) =>
         session.whole /\ session.groups = rank[root].groups

(* No rank waits for ever in a collective or in a write. *)
InCall(r) == r \in Ranks /\ rank[r].at \notin {"ready", "down"}
CallsReturn == \A r \in 0 .. Max(NoRanks) - 1 : InCall(r) ~> ~InCall(r)

(* A collective returns on every rank what it returned at the root:           *)
(* utility/mpi/comm.hpp:100, "this type is broadcasted to all MPI Processes". *)
ResultsAgree ==
  \A r \in Ranks : \A k \in DOMAIN rank[r].results \cap DOMAIN rank[root].results :
    rank[r].results[k] = rank[root].results[k]

=============================================================================
