---------------------------- MODULE MessageList ----------------------------
(***************************************************************************)
(* The list in which an agent keeps the messages it has not read: new ones *)
(* go to the tail, and a reader unlinks the first one its filter accepts.  *)
(* A message is a record with a field kind, and a filter of the code looks *)
(* at nothing else, so a filter is the set of kinds it accepts.            *)
(***************************************************************************)
EXTENDS Naturals, Sequences, SequencesExt, FiniteSetsExt

(* Where the messages lie that a filter accepts. *)
Acceptable(list, kinds) == {i \in DOMAIN list : list[i].kind \in kinds}

(* The place at which the search of agent_recv_filter stops. *)
FirstAcceptable(list, kinds) ==
    CHOOSE i \in Acceptable(list, kinds) :
        \A j \in Acceptable(list, kinds) : i <= j

(* The message found there, and the list without it (list_del). *)
Found(list, kinds) == list[FirstAcceptable(list, kinds)]
Unlinked(list, kinds) == RemoveAt(list, FirstAcceptable(list, kinds))
=============================================================================
