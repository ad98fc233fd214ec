---------------------------- MODULE InternTable ----------------------------
(***************************************************************************)
(* runtime/memory/intern_table.{h,cpp}: the table that gives symbols and   *)
(* strings their ids.  Each map is a concurrent flat map whose operations  *)
(* are atomic; intern() is not, it is a sequence of them, so threads that  *)
(* intern the same string meet between any two.                            *)
(***************************************************************************)
EXTENDS Naturals, FiniteSets

CONSTANTS
  Caller,    \* threads that call intern()
  String,
  NoStr,     \* no entry in id_to_str
  NoId,      \* no entry in str_to_id; no answer yet
  OutOfRange,    \* InternTableError::IdOutOfRange
  PayloadMask, \* the largest id a boxed value can carry
  IdBound    \* bound on next_id

Ids == 0..PayloadMask

ASSUME TableAssumption ==
  /\ PayloadMask \in Nat /\ IdBound \in Nat
  /\ NoStr \notin String
  /\ NoId \notin Nat /\ OutOfRange \notin Nat /\ NoId # OutOfRange

VARIABLES
  str_to_id,
  id_to_str,
  next_id,
  pc,      \* where each thread is in intern()
  str,     \* its argument
  id,      \* the id it drew
  answer   \* what it is about to return

tableVars == <<str_to_id, id_to_str, next_id, pc, str, id, answer>>

Lines == {"idle", "visit", "draw", "emplaceId", "emplaceStr", "erase", "return"}

TableTypeOK ==
  /\ str_to_id \in [String -> Ids \cup {NoId}]
  /\ id_to_str \in [Ids -> String \cup {NoStr}]
  /\ next_id \in Nat
  /\ pc \in [Caller -> Lines]
  /\ str \in [Caller -> String \cup {NoStr}]
  /\ id \in [Caller -> Nat \cup {NoId}]
  /\ answer \in [Caller -> Ids \cup {NoId, OutOfRange}]

InitTable ==
  /\ str_to_id = [s \in String |-> NoId]
  /\ id_to_str = [i \in Ids |-> NoStr]
  /\ next_id = 0
  /\ pc = [t \in Caller |-> "idle"]
  /\ str = [t \in Caller |-> NoStr]
  /\ id = [t \in Caller |-> NoId]
  /\ answer = [t \in Caller |-> NoId]

Move(t, from, to) == pc[t] = from /\ pc' = [pc EXCEPT ![t] = to]

\* Once next_id may reach its bound, only known strings are asked for.
Intern(t, s) ==
  /\ Move(t, "idle", "visit")
  /\ \/ str_to_id[s] # NoId
     \/ next_id + Cardinality({u \in Caller : pc[u] # "idle"}) < IdBound
  /\ str' = [str EXCEPT ![t] = s]
  /\ UNCHANGED <<str_to_id, id_to_str, next_id, id, answer>>

\* The fast path: the string is there.
Visit(t) ==
  /\ \/ /\ Move(t, "visit", "return")
        /\ str_to_id[str[t]] # NoId
        /\ answer' = [answer EXCEPT ![t] = str_to_id[str[t]]]
     \/ /\ Move(t, "visit", "draw")
        /\ str_to_id[str[t]] = NoId
        /\ UNCHANGED answer
  /\ UNCHANGED <<str_to_id, id_to_str, next_id, str, id>>

\* next_id.fetch_add(1) and the range check on what it returned.
Draw(t) ==
  /\ next_id' = next_id + 1
  /\ \/ /\ Move(t, "draw", "emplaceId")
        /\ next_id <= PayloadMask
        /\ id' = [id EXCEPT ![t] = next_id]
        /\ UNCHANGED answer
     \/ /\ Move(t, "draw", "return")
        /\ next_id > PayloadMask
        /\ answer' = [answer EXCEPT ![t] = OutOfRange]
        /\ UNCHANGED id
  /\ UNCHANGED <<str_to_id, id_to_str, str>>

\* Faulty variant: the string becomes visible before its id resolves.
EmplaceIdLate(t) ==
  /\ Move(t, "emplaceId", "emplaceStr")
  /\ UNCHANGED <<str_to_id, id_to_str, next_id, str, id, answer>>

EmplaceId(t) ==
  /\ Move(t, "emplaceId", "emplaceStr")
  /\ id_to_str' = [id_to_str EXCEPT ![id[t]] = str[t]]
  /\ UNCHANGED <<str_to_id, next_id, str, id, answer>>

\* Faulty variant: insert_or_assign in place of emplace_or_visit.
EmplaceStrOverwriting(t) ==
  /\ Move(t, "emplaceStr", "return")
  /\ str_to_id' = [str_to_id EXCEPT ![str[t]] = id[t]]
  /\ answer' = [answer EXCEPT ![t] = id[t]]
  /\ id' = [id EXCEPT ![t] = NoId]
  /\ UNCHANGED <<id_to_str, next_id, str>>

\* emplace_or_visit: the first thread's id wins, the others learn it.
EmplaceStr(t) ==
  /\ \/ /\ Move(t, "emplaceStr", "return")
        /\ str_to_id[str[t]] = NoId
        /\ str_to_id' = [str_to_id EXCEPT ![str[t]] = id[t]]
        /\ answer' = [answer EXCEPT ![t] = id[t]]
        /\ id' = [id EXCEPT ![t] = NoId]
     \/ /\ Move(t, "emplaceStr", "erase")
        /\ str_to_id[str[t]] # NoId
        /\ answer' = [answer EXCEPT ![t] = str_to_id[str[t]]]
        /\ UNCHANGED <<str_to_id, id>>
  /\ UNCHANGED <<id_to_str, next_id, str>>

\* Faulty variant: the winner's entry is erased.
EraseWinner(t) ==
  /\ Move(t, "erase", "return")
  /\ id_to_str' = [id_to_str EXCEPT ![answer[t]] = NoStr]
  /\ id' = [id EXCEPT ![t] = NoId]
  /\ UNCHANGED <<str_to_id, next_id, str, answer>>

\* The loser removes the entry of the id it drew.
Erase(t) ==
  /\ Move(t, "erase", "return")
  /\ id_to_str' = [id_to_str EXCEPT ![id[t]] = NoStr]
  /\ id' = [id EXCEPT ![t] = NoId]
  /\ UNCHANGED <<str_to_id, next_id, str, answer>>

ReturnId(t) ==
  /\ Move(t, "return", "idle")
  /\ str' = [str EXCEPT ![t] = NoStr]
  /\ answer' = [answer EXCEPT ![t] = NoId]
  /\ UNCHANGED <<str_to_id, id_to_str, next_id, id>>

Step(t) == Visit(t) \/ Draw(t) \/ EmplaceId(t) \/ EmplaceStr(t) \/ Erase(t) \/ ReturnId(t)

TableNext == \E t \in Caller : Step(t) \/ \E s \in String : Intern(t, s)

TableSpec == InitTable /\ [][TableNext]_tableVars

-----------------------------------------------------------------------------
\* Whatever id another thread can learn from str_to_id resolves to its string,
\* at every moment (get_string after get_id or intern, intern_table.cpp:24-31).
IdsResolve == \A s \in String : str_to_id[s] # NoId => id_to_str[str_to_id[s]] = s

\* With no call in flight the two maps are inverse: lost races leave nothing
\* behind (intern_table.cpp:33-39).
NoOrphans ==
  (\A t \in Caller : pc[t] = "idle")
    => \A i \in Ids : id_to_str[i] # NoStr => str_to_id[id_to_str[i]] = i

\* The table is linearizable: threads see one atomic dictionary, in which a
\* string that is known is found, also when there are no ids left.
Looked(t) == IF pc[t] \in {"draw", "emplaceId", "emplaceStr"} THEN "in vain" ELSE "no"
Linearized == INSTANCE InternSpec WITH
  ids <- str_to_id,
  call <- [t \in Caller |-> [str |-> str[t], looked |-> Looked(t), answer |-> answer[t]]]
KeepsDictionary == Linearized!Spec

-----------------------------------------------------------------------------
(* The inductive invariant. *)

\* Between drawing an id and giving it up a thread owns it.
Owns(t) == pc[t] \in {"emplaceId", "emplaceStr", "erase"}

ThreadInv(t) ==
  /\ pc[t] = "idle" <=> str[t] = NoStr
  /\ answer[t] = NoId <=> pc[t] \notin {"erase", "return"}
  /\ answer[t] \in Ids => answer[t] = str_to_id[str[t]]
  /\ pc[t] = "erase" => answer[t] \in Ids
  /\ Owns(t) => /\ id[t] \in Ids /\ id[t] < next_id
                /\ \A s \in String : str_to_id[s] # id[t]
  /\ pc[t] \in {"emplaceStr", "erase"} => id_to_str[id[t]] = str[t]

TableInv ==
  /\ \A s \in String : str_to_id[s] # NoId => str_to_id[s] < next_id
  /\ \A i \in Ids : id_to_str[i] # NoStr =>
       \/ str_to_id[id_to_str[i]] = i
       \/ \E t \in Caller : pc[t] \in {"emplaceStr", "erase"} /\ id[t] = i

InternInv ==
  /\ TableTypeOK
  /\ IdsResolve
  /\ \A t \in Caller : ThreadInv(t)
  /\ \A t, u \in Caller : t # u /\ Owns(t) /\ Owns(u) => id[t] # id[u]
  /\ TableInv
=============================================================================
