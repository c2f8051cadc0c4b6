------------------------ MODULE RecentConnections ------------------------
(***************************************************************************)
(* The file of recent connections (src/app/src/config/recent.cpp and       *)
(* recent.hpp) and the menu made from it (refreshRecents of the device     *)
(* manager).  The file lies in the working directory, so programs started  *)
(* there share it; each may be killed between any two steps.               *)
(*                                                                         *)
(* The file is absent, whole (a list of entries that parses) or torn       *)
(* (truncated, or written in part, and so not JSON).  addRecentConnection  *)
(* reads the list, truncates the file and writes the list with one entry   *)
(* more.  A file that does not parse throws; nothing on the way to main()  *)
(* catches it.                                                             *)
(***************************************************************************)
EXTENDS Naturals, Sequences

CONSTANTS
  Program,      \* the running programs that share the file
  Connection,   \* what the user may add
  Foreign,      \* an entry of a type recentConnections() does not know
  MaxAdds       \* bound: additions saved or under way, all programs together

ASSUME RecentAssumption == Foreign \notin Connection /\ MaxAdds \in Nat

Entry == Connection \cup {Foreign}

VARIABLES
  file,      \* "absent", "whole" or "torn"
  entries,   \* the list in a whole file
  at,        \* where each program is
  menu,      \* recent_connections_ of each program
  doc,       \* j of addRecentConnection: the list it has read
  adding,    \* the connection it saves
  adds,      \* additions begun
  saved,     \* history: the list as the additions made it, one after the other
  stale,     \* history: programs that have not read since another one wrote
  misread,   \* history: a file that exists could not be opened for reading
  raced      \* history: two programs were between reading and writing at once

vars == <<file, entries, at, menu, doc, adding, adds, saved, stale, misread, raced>>

disk    == <<file, entries>>
request == <<doc, adding, adds>>
history == <<saved, stale, misread, raced>>

Init ==
  /\ \/ file = "absent" /\ entries = <<>>
     \/ file = "whole" /\ entries = <<Foreign>>
  /\ saved = entries
  /\ at = [p \in Program |-> "off"]
  /\ menu = [p \in Program |-> <<>>]
  /\ doc = [p \in Program |-> <<>>]
  /\ adding = [p \in Program |-> Foreign]
  /\ adds = 0
  /\ stale = {} /\ misread = FALSE /\ raced = FALSE

Others(p) == {q \in Program \ {p} : at[q] # "off"}
Goto(p, label) == at' = [at EXCEPT ![p] = label]

-----------------------------------------------------------------------------
(***************************************************************************)
(* The user and the system.                                                *)
(***************************************************************************)
Start(p) ==
  /\ at[p] = "off"
  /\ Goto(p, "load")
  /\ UNCHANGED <<disk, menu, request, history>>

\* The program ends or is killed, wherever it is.
Stop(p) ==
  /\ at[p] # "off"
  /\ Goto(p, "off")
  /\ UNCHANGED <<disk, menu, request, history>>

\* One of the three add*Connection functions, called by the creation dialog.
Add(p) ==
  /\ at[p] = "run"
  /\ adds < MaxAdds
  /\ \E c \in Connection : adding' = [adding EXCEPT ![p] = c]
  /\ adds' = adds + 1
  /\ Goto(p, "read")
  /\ UNCHANGED <<disk, menu, doc, history>>

-----------------------------------------------------------------------------
(***************************************************************************)
(* recentConnections(), called by the constructor and after an addition.   *)
(***************************************************************************)
\* The loop over the entries skips the types it does not know.
Known(list) ==
  LET known[i \in 0..Len(list)] ==
        IF i = 0 THEN <<>>
        ELSE IF list[i] \in Connection THEN Append(known[i - 1], list[i]) ELSE known[i - 1]
  IN  known[Len(list)]

\* Mutant: a file that does not parse is treated as an empty one.
LoadTolerant(p) ==
  /\ at[p] = "load"
  /\ menu' = [menu EXCEPT ![p] = Known(entries)]
  /\ stale' = stale \ {p}
  /\ Goto(p, "run")
  /\ UNCHANGED <<disk, request, saved, misread, raced>>

\* A file that cannot be opened gives an empty menu, a torn one ends the program.
Load(p) ==
  /\ at[p] = "load"
  /\ \/ /\ file = "torn"
        /\ Goto(p, "off")
        /\ UNCHANGED <<menu, stale, misread>>
     \/ /\ file = "whole"
        /\ menu' = [menu EXCEPT ![p] = Known(entries)]
        /\ stale' = stale \ {p}
        /\ misread' = misread
        /\ Goto(p, "run")
     \/ /\ menu' = [menu EXCEPT ![p] = <<>>]
        /\ stale' = stale \ {p}
        /\ misread' = (misread \/ file # "absent")
        /\ Goto(p, "run")
  /\ UNCHANGED <<disk, request, saved, raced>>

-----------------------------------------------------------------------------
(***************************************************************************)
(* addRecentConnection().                                                  *)
(***************************************************************************)

\* input_file >> j, of a torn file, throws; a file that cannot be opened is
\* taken for an empty one.
Read(p) ==
  /\ at[p] = "read"
  /\ \/ /\ file = "torn"
        /\ Goto(p, "off")
        /\ UNCHANGED <<doc, misread>>
     \/ /\ file = "whole"
        /\ doc' = [doc EXCEPT ![p] = entries]
        /\ misread' = misread
        /\ Goto(p, "open")
     \/ /\ doc' = [doc EXCEPT ![p] = <<>>]
        /\ misread' = (misread \/ file # "absent")
        /\ Goto(p, "open")
  /\ UNCHANGED <<disk, menu, adding, adds, saved, stale, raced>>

\* std::ofstream o: opening truncates the file.  Failing to open it is logged,
\* and the addition goes on without having been saved.
Truncate(p) ==
  /\ at[p] = "open"
  /\ \/ /\ file' = "torn" /\ entries' = <<>>
        /\ stale' = stale \cup Others(p)
        /\ raced' = (raced \/ \E q \in Program \ {p} : at[q] \in {"open", "write"})
        /\ Goto(p, "write")
     \/ /\ UNCHANGED <<disk, stale, raced>>
        /\ Goto(p, "load")
  /\ UNCHANGED <<menu, request, saved, misread>>

\* Mutant: only the new entry is written.
WriteNewest(p) ==
  /\ at[p] = "write"
  /\ file' = "whole" /\ entries' = <<adding[p]>>
  /\ saved' = Append(saved, adding[p])
  /\ stale' = stale \cup Others(p)
  /\ Goto(p, "load")
  /\ UNCHANGED <<menu, request, misread, raced>>

\* Mutant: the menu is not refreshed after the write.
WriteForgetsRefresh(p) ==
  /\ at[p] = "write"
  /\ file' = "whole" /\ entries' = Append(doc[p], adding[p])
  /\ saved' = Append(saved, adding[p])
  /\ stale' = stale \cup Others(p)
  /\ Goto(p, "run")
  /\ UNCHANGED <<menu, request, misread, raced>>

\* o << j << std::endl.  A write that fails (a full disk) leaves a part of it
\* and is not noticed.
Write(p) ==
  /\ at[p] = "write"
  /\ \/ /\ file' = "whole" /\ entries' = Append(doc[p], adding[p])
        /\ saved' = Append(saved, adding[p])
     \/ file' = "torn" /\ entries' = <<>> /\ saved' = saved
  /\ stale' = stale \cup Others(p)
  /\ Goto(p, "load")
  /\ UNCHANGED <<menu, request, misread, raced>>

Step(p) == Load(p) \/ Read(p) \/ Truncate(p) \/ Write(p)

Next == \E p \in Program : Start(p) \/ Stop(p) \/ Add(p) \/ Step(p)

Spec == Init /\ [][Next]_vars

-----------------------------------------------------------------------------
Place == {"off", "load", "run", "read", "open", "write"}

\* What the file is made from; only a whole file has entries.
FileTypes ==
  /\ file \in {"absent", "whole", "torn"}
  /\ entries \in Seq(Entry) /\ (file # "whole" => entries = <<>>)
  /\ at \in [Program -> Place]
  /\ doc \in [Program -> Seq(Entry)]
  /\ adding \in [Program -> Entry]
  /\ saved \in Seq(Entry)
  /\ misread \in BOOLEAN /\ raced \in BOOLEAN

\* Every variable keeps its type; a menu offers connections only.
TypeOK ==
  /\ FileTypes
  /\ menu \in [Program -> Seq(Connection)]
  /\ adds \in 0..MaxAdds /\ stale \subseteq Program

(***************************************************************************)
(* A file that parses holds every addition ever saved, in order, and what  *)
(* it held at first, however often programs were stopped and started: the  *)
(* read, truncate and write of addRecentConnection lose entries only by    *)
(* tearing the file, by a read that could not open it, or by another       *)
(* program in between.                                                     *)
(***************************************************************************)
Durable == file # "torn" /\ ~misread /\ ~raced => entries = saved

(***************************************************************************)
(* The menu of a running program shows what the file holds, unless another *)
(* program has written since it read.                                      *)
(***************************************************************************)
MenuShowsFile ==
  \A p \in Program :
    at[p] = "run" /\ p \notin stale /\ ~misread => menu[p] = Known(entries) /\ file # "torn"

(***************************************************************************)
(* A file torn while no program runs is fatal: from then on a program gets *)
(* past its constructor only if it fails to open the file.                 *)
(***************************************************************************)
Dead     == file = "torn" /\ \A p \in Program : at[p] = "off"
Unusable == misread \/ \A p \in Program : at[p] \in {"off", "load"}

TornIsFatal == [](Dead => []Unusable)
=============================================================================
