-------------------------------- MODULE Updates --------------------------------
(***************************************************************************)
(* The choice of an update: UpdateClient::AsyncGetUpdateList reads the     *)
(* server's list of installers, CoreManager::AsyncCheckForUpdates chooses  *)
(* one.  A version of the program or of Windows is a number.               *)
(***************************************************************************)
EXTENDS Integers, Sequences, FiniteSetsExt

(* A field that is absent, has another type, or does not parse.            *)
Unreadable == -1

IsReadable(entry) == entry.os # Unreadable /\ entry.version # Unreadable

(* AsyncGetUpdateList: the loop ends at the first entry it cannot read and *)
(* the list is what it has read.                                           *)
UpdateList(entries) ==
    LET bad == {i \in DOMAIN entries : ~IsReadable(entries[i])}
    IN IF bad = {} THEN entries ELSE SubSeq(entries, 1, Min(bad) - 1)

(* updateInfoList->sort: the comparison (>=) is not an order, so entries   *)
(* it calls equal may come out in any sequence.                            *)
SortedLists(list) ==
    {[i \in DOMAIN list |-> list[p[i]]] :
        p \in {q \in [DOMAIN list -> DOMAIN list] :
                 \A i, j \in DOMAIN list : i < j => q[i] # q[j] /\ list[q[i]].os >= list[q[j]].os}}

Runnable(list, os) == {i \in DOMAIN list : os >= list[i].os}

(* The loop goes on to the next entry the system can run.                  *)
FoundAny(list, os, current) ==
    LET newer == {i \in Runnable(list, os) : current < list[i].version}
    IN IF newer = {} THEN {} ELSE {list[Min(newer)]}

(* The loop of getUpdateListCallback: only the first entry the system can  *)
(* run is compared with the current version.  One is found, or none.       *)
Found(list, os, current) ==
    LET runnable == Runnable(list, os)
    IN IF runnable # {} /\ current < list[Min(runnable)].version THEN {list[Min(runnable)]} ELSE {}
===============================================================================
