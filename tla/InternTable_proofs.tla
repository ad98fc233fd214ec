------------------------- MODULE InternTable_proofs -------------------------
(***************************************************************************)
(* The intern table for any number of threads and strings: its inductive   *)
(* invariant, and that it implements InternSpec.                           *)
(***************************************************************************)
EXTENDS InternTable, TLAPS

LEMMA InitInv == InitTable => InternInv
  BY TableAssumption
  DEF InitTable, InternInv, TableTypeOK, IdsResolve, ThreadInv, TableInv, Owns, Lines, Ids

LEMMA CallInv == ASSUME InternInv, NEW t \in Caller, NEW s \in String, Intern(t, s) PROVE InternInv'
<1> USE TableAssumption DEF Intern, Move
<1>1. TableTypeOK'
  BY DEF InternInv, TableTypeOK, ThreadInv, Owns, Lines, Ids
<1>2. IdsResolve'
  BY DEF InternInv, TableTypeOK, IdsResolve, ThreadInv, Owns, Ids
<1>3. ASSUME NEW u \in Caller PROVE ThreadInv(u)'
  <2>1. CASE u = t
    BY <2>1 DEF InternInv, TableTypeOK, ThreadInv, TableInv, Owns, Ids
  <2>2. CASE u # t
    BY <2>2 DEF InternInv, TableTypeOK, ThreadInv, Owns, Ids
  <2>3. QED
    BY <2>1, <2>2
<1>4. \A u, v \in Caller : u # v /\ Owns(u)' /\ Owns(v)' => id'[u] # id'[v]
  BY DEF InternInv, TableTypeOK, ThreadInv, Owns, Ids
<1>5. TableInv'
  BY DEF InternInv, TableTypeOK, ThreadInv, TableInv, Owns, Ids
<1>6. QED
  BY <1>1, <1>2, <1>3, <1>4, <1>5 DEF InternInv

LEMMA VisitInv == ASSUME InternInv, NEW t \in Caller, Visit(t) PROVE InternInv'
<1> USE TableAssumption DEF Visit, Move
<1>1. TableTypeOK'
  <2>1. str[t] \in String /\ ThreadInv(t)
    BY DEF InternInv, TableTypeOK, ThreadInv
  <2>2. pc' \in [Caller -> Lines] /\ next_id' \in Nat
    BY DEF InternInv, TableTypeOK, Lines
  <2>3. str_to_id[str[t]] \in Ids \cup {NoId} /\ (Owns(t) => id[t] \in Ids)
    BY <2>1 DEF InternInv, TableTypeOK, ThreadInv
  <2>4. answer' \in [Caller -> Ids \cup {NoId, OutOfRange}]
    BY <2>3 DEF InternInv, TableTypeOK, Owns
  <2>5. id' \in [Caller -> Nat \cup {NoId}]
    BY DEF InternInv, TableTypeOK
  <2>6. str_to_id' \in [String -> Ids \cup {NoId}]
    BY <2>1, <2>3 DEF InternInv, TableTypeOK, Owns
  <2>7. QED
    BY <2>2, <2>4, <2>5, <2>6 DEF InternInv, TableTypeOK
<1>2. IdsResolve'
  BY DEF InternInv, TableTypeOK, IdsResolve, ThreadInv, Owns
<1>3. ASSUME NEW u \in Caller PROVE ThreadInv(u)'
  <2>1. CASE u = t
    BY <2>1 DEF InternInv, TableTypeOK, ThreadInv, TableInv, Owns, Ids
  <2>2. CASE u # t
    BY <2>2 DEF InternInv, TableTypeOK, ThreadInv, Owns, Ids
  <2>3. QED
    BY <2>1, <2>2
<1>4. \A u, v \in Caller : u # v /\ Owns(u)' /\ Owns(v)' => id'[u] # id'[v]
  BY DEF InternInv, TableTypeOK, ThreadInv, Owns, Ids
<1>5. TableInv'
  <2>1. \A s \in String : str_to_id'[s] # NoId => str_to_id'[s] < next_id'
    BY DEF InternInv, TableTypeOK, ThreadInv, TableInv, Owns, Ids
  <2>2. ASSUME NEW i \in Ids, id_to_str'[i] # NoStr, str_to_id'[id_to_str'[i]] # i
        PROVE  \E u \in Caller : pc'[u] \in {"emplaceStr", "erase"} /\ id'[u] = i
    <3>1. id_to_str'[i] = id_to_str[i] /\ id_to_str[i] \in String
      BY <2>2 DEF InternInv, TableTypeOK
    <3>2. str_to_id[id_to_str[i]] # i
      BY <2>2, <3>1 DEF InternInv, TableTypeOK, ThreadInv, Ids
    <3>3. PICK u \in Caller : pc[u] \in {"emplaceStr", "erase"} /\ id[u] = i
      BY <2>2, <3>1, <3>2 DEF InternInv, TableInv
    <3>4. pc'[u] \in {"emplaceStr", "erase"} /\ id'[u] = i
      BY <2>2, <3>1, <3>3 DEF InternInv, TableTypeOK, ThreadInv
    <3>5. QED
      BY <3>4
  <2>3. QED
    BY <2>1, <2>2 DEF TableInv
<1>6. QED
  BY <1>1, <1>2, <1>3, <1>4, <1>5 DEF InternInv

LEMMA DrawInv == ASSUME InternInv, NEW t \in Caller, Draw(t) PROVE InternInv'
<1> USE TableAssumption DEF Draw, Move
<1>1. TableTypeOK'
  <2>1. str[t] \in String /\ ThreadInv(t)
    BY DEF InternInv, TableTypeOK, ThreadInv
  <2>2. pc' \in [Caller -> Lines] /\ next_id' \in Nat
    BY DEF InternInv, TableTypeOK, Lines
  <2>3. str_to_id[str[t]] \in Ids \cup {NoId} /\ (Owns(t) => id[t] \in Ids)
    BY <2>1 DEF InternInv, TableTypeOK, ThreadInv
  <2>4. answer' \in [Caller -> Ids \cup {NoId, OutOfRange}]
    BY <2>3 DEF InternInv, TableTypeOK, Owns
  <2>5. id' \in [Caller -> Nat \cup {NoId}]
    BY DEF InternInv, TableTypeOK
  <2>6. str_to_id' \in [String -> Ids \cup {NoId}]
    BY <2>1, <2>3 DEF InternInv, TableTypeOK, Owns
  <2>7. QED
    BY <2>2, <2>4, <2>5, <2>6 DEF InternInv, TableTypeOK
<1>2. IdsResolve'
  BY DEF InternInv, TableTypeOK, IdsResolve, ThreadInv, Owns
<1>3. ASSUME NEW u \in Caller PROVE ThreadInv(u)'
  <2>1. CASE u = t
    BY <2>1 DEF InternInv, TableTypeOK, ThreadInv, TableInv, Owns, Ids
  <2>2. CASE u # t
    BY <2>2 DEF InternInv, TableTypeOK, ThreadInv, Owns, Ids
  <2>3. QED
    BY <2>1, <2>2
<1>4. \A u, v \in Caller : u # v /\ Owns(u)' /\ Owns(v)' => id'[u] # id'[v]
  BY DEF InternInv, TableTypeOK, ThreadInv, Owns, Ids
<1>5. TableInv'
  <2>1. \A s \in String : str_to_id'[s] # NoId => str_to_id'[s] < next_id'
    BY DEF InternInv, TableTypeOK, ThreadInv, TableInv, Owns, Ids
  <2>2. ASSUME NEW i \in Ids, id_to_str'[i] # NoStr, str_to_id'[id_to_str'[i]] # i
        PROVE  \E u \in Caller : pc'[u] \in {"emplaceStr", "erase"} /\ id'[u] = i
    <3>1. id_to_str'[i] = id_to_str[i] /\ id_to_str[i] \in String
      BY <2>2 DEF InternInv, TableTypeOK
    <3>2. str_to_id[id_to_str[i]] # i
      BY <2>2, <3>1 DEF InternInv, TableTypeOK, ThreadInv, Ids
    <3>3. PICK u \in Caller : pc[u] \in {"emplaceStr", "erase"} /\ id[u] = i
      BY <2>2, <3>1, <3>2 DEF InternInv, TableInv
    <3>4. pc'[u] \in {"emplaceStr", "erase"} /\ id'[u] = i
      BY <2>2, <3>1, <3>3 DEF InternInv, TableTypeOK, ThreadInv
    <3>5. QED
      BY <3>4
  <2>3. QED
    BY <2>1, <2>2 DEF TableInv
<1>6. QED
  BY <1>1, <1>2, <1>3, <1>4, <1>5 DEF InternInv

LEMMA EmplaceIdInv == ASSUME InternInv, NEW t \in Caller, EmplaceId(t) PROVE InternInv'
<1> USE TableAssumption DEF EmplaceId, Move
<1>1. TableTypeOK'
  BY DEF InternInv, TableTypeOK, ThreadInv, Owns, Lines, Ids
<1>2. IdsResolve'
  BY DEF InternInv, TableTypeOK, IdsResolve, ThreadInv, Owns, Ids
<1>3. ASSUME NEW u \in Caller PROVE ThreadInv(u)'
  <2>1. CASE u = t
    BY <2>1 DEF InternInv, TableTypeOK, ThreadInv, TableInv, Owns, Ids
  <2>2. CASE u # t
    BY <2>2 DEF InternInv, TableTypeOK, ThreadInv, Owns, Ids
  <2>3. QED
    BY <2>1, <2>2
<1>4. \A u, v \in Caller : u # v /\ Owns(u)' /\ Owns(v)' => id'[u] # id'[v]
  BY DEF InternInv, TableTypeOK, ThreadInv, Owns, Ids
<1>5. TableInv'
  BY DEF InternInv, TableTypeOK, ThreadInv, TableInv, Owns, Ids
<1>6. QED
  BY <1>1, <1>2, <1>3, <1>4, <1>5 DEF InternInv

LEMMA EmplaceStrInv == ASSUME InternInv, NEW t \in Caller, EmplaceStr(t) PROVE InternInv'
<1> USE TableAssumption DEF EmplaceStr, Move
<1>1. TableTypeOK'
  <2>1. str[t] \in String /\ ThreadInv(t)
    BY DEF InternInv, TableTypeOK, ThreadInv
  <2>2. pc' \in [Caller -> Lines] /\ next_id' \in Nat
    BY DEF InternInv, TableTypeOK, Lines
  <2>3. str_to_id[str[t]] \in Ids \cup {NoId} /\ (Owns(t) => id[t] \in Ids)
    BY <2>1 DEF InternInv, TableTypeOK, ThreadInv
  <2>4. answer' \in [Caller -> Ids \cup {NoId, OutOfRange}]
    BY <2>3 DEF InternInv, TableTypeOK, Owns
  <2>5. id' \in [Caller -> Nat \cup {NoId}]
    BY DEF InternInv, TableTypeOK
  <2>6. str_to_id' \in [String -> Ids \cup {NoId}]
    BY <2>1, <2>3 DEF InternInv, TableTypeOK, Owns
  <2>7. QED
    BY <2>2, <2>4, <2>5, <2>6 DEF InternInv, TableTypeOK
<1>2. IdsResolve'
  BY DEF InternInv, TableTypeOK, IdsResolve, ThreadInv, Owns
<1>3. ASSUME NEW u \in Caller PROVE ThreadInv(u)'
  <2>1. CASE u = t
    BY <2>1 DEF InternInv, TableTypeOK, ThreadInv, TableInv, Owns, Ids
  <2>2. CASE u # t
    BY <2>2 DEF InternInv, TableTypeOK, ThreadInv, Owns, Ids
  <2>3. QED
    BY <2>1, <2>2
<1>4. \A u, v \in Caller : u # v /\ Owns(u)' /\ Owns(v)' => id'[u] # id'[v]
  BY DEF InternInv, TableTypeOK, ThreadInv, Owns, Ids
<1>5. TableInv'
  <2>1. \A s \in String : str_to_id'[s] # NoId => str_to_id'[s] < next_id'
    BY DEF InternInv, TableTypeOK, ThreadInv, TableInv, Owns, Ids
  <2>2. ASSUME NEW i \in Ids, id_to_str'[i] # NoStr, str_to_id'[id_to_str'[i]] # i
        PROVE  \E u \in Caller : pc'[u] \in {"emplaceStr", "erase"} /\ id'[u] = i
    <3>1. id_to_str'[i] = id_to_str[i] /\ id_to_str[i] \in String
      BY <2>2 DEF InternInv, TableTypeOK
    <3>2. str_to_id[id_to_str[i]] # i
      BY <2>2, <3>1 DEF InternInv, TableTypeOK, ThreadInv, Ids
    <3>3. PICK u \in Caller : pc[u] \in {"emplaceStr", "erase"} /\ id[u] = i
      BY <2>2, <3>1, <3>2 DEF InternInv, TableInv
    <3>4. pc'[u] \in {"emplaceStr", "erase"} /\ id'[u] = i
      BY <2>2, <3>1, <3>3 DEF InternInv, TableTypeOK, ThreadInv
    <3>5. QED
      BY <3>4
  <2>3. QED
    BY <2>1, <2>2 DEF TableInv
<1>6. QED
  BY <1>1, <1>2, <1>3, <1>4, <1>5 DEF InternInv

LEMMA EraseInv == ASSUME InternInv, NEW t \in Caller, Erase(t) PROVE InternInv'
<1> USE TableAssumption DEF Erase, Move
<1>1. TableTypeOK'
  BY DEF InternInv, TableTypeOK, ThreadInv, Owns, Lines, Ids
<1>2. IdsResolve'
  BY DEF InternInv, TableTypeOK, IdsResolve, ThreadInv, Owns, Ids
<1>3. ASSUME NEW u \in Caller PROVE ThreadInv(u)'
  <2>1. CASE u = t
    BY <2>1 DEF InternInv, TableTypeOK, ThreadInv, TableInv, Owns, Ids
  <2>2. CASE u # t
    BY <2>2 DEF InternInv, TableTypeOK, ThreadInv, Owns, Ids
  <2>3. QED
    BY <2>1, <2>2
<1>4. \A u, v \in Caller : u # v /\ Owns(u)' /\ Owns(v)' => id'[u] # id'[v]
  BY DEF InternInv, TableTypeOK, ThreadInv, Owns, Ids
<1>5. TableInv'
  BY DEF InternInv, TableTypeOK, ThreadInv, TableInv, Owns, Ids
<1>6. QED
  BY <1>1, <1>2, <1>3, <1>4, <1>5 DEF InternInv

LEMMA ReturnInv == ASSUME InternInv, NEW t \in Caller, ReturnId(t) PROVE InternInv'
<1> USE TableAssumption DEF ReturnId, Move
<1>1. TableTypeOK'
  BY DEF InternInv, TableTypeOK, ThreadInv, Owns, Lines, Ids
<1>2. IdsResolve'
  BY DEF InternInv, TableTypeOK, IdsResolve, ThreadInv, Owns, Ids
<1>3. ASSUME NEW u \in Caller PROVE ThreadInv(u)'
  <2>1. CASE u = t
    BY <2>1 DEF InternInv, TableTypeOK, ThreadInv, TableInv, Owns, Ids
  <2>2. CASE u # t
    BY <2>2 DEF InternInv, TableTypeOK, ThreadInv, Owns, Ids
  <2>3. QED
    BY <2>1, <2>2
<1>4. \A u, v \in Caller : u # v /\ Owns(u)' /\ Owns(v)' => id'[u] # id'[v]
  BY DEF InternInv, TableTypeOK, ThreadInv, Owns, Ids
<1>5. TableInv'
  BY DEF InternInv, TableTypeOK, ThreadInv, TableInv, Owns, Ids
<1>6. QED
  BY <1>1, <1>2, <1>3, <1>4, <1>5 DEF InternInv

LEMMA StutterInv == ASSUME InternInv, UNCHANGED tableVars PROVE InternInv'
  BY TableAssumption
  DEF tableVars, InternInv, TableTypeOK, IdsResolve, ThreadInv, TableInv, Owns, Lines, Ids

-----------------------------------------------------------------------------
(***************************************************************************)
(* At every moment of every interleaving the ids in str_to_id resolve,     *)
(* every drawn id has one owner and every entry of id_to_str is either the *)
(* string's id or about to be erased by its owner.                         *)
(***************************************************************************)
THEOREM InternInvariant == TableSpec => []InternInv
<1>1. InitTable => InternInv
  BY InitInv
<1>2. ASSUME InternInv, [TableNext]_tableVars PROVE InternInv'
  <2>1. CASE UNCHANGED tableVars
    BY <1>2, <2>1, StutterInv
  <2>2. CASE TableNext
    BY <1>2, <2>2, CallInv, VisitInv, DrawInv, EmplaceIdInv, EmplaceStrInv, EraseInv, ReturnInv
    DEF TableNext, Step
  <2>3. QED
    BY <1>2, <2>1, <2>2
<1>3. QED
  BY <1>1, <1>2, PTL DEF TableSpec

(***************************************************************************)
(* get_string never fails on an id that get_id or intern returned.         *)
(***************************************************************************)
THEOREM Resolves == TableSpec => []IdsResolve
<1>1. InternInv => IdsResolve
  BY DEF InternInv
<1>2. QED
  BY <1>1, InternInvariant, PTL

(***************************************************************************)
(* With no call in flight the two maps are inverse of each other.          *)
(***************************************************************************)
THEOREM Inverse == TableSpec => []NoOrphans
<1>1. InternInv => NoOrphans
  BY DEF InternInv, NoOrphans, TableInv
<1>2. QED
  BY <1>1, InternInvariant, PTL

-----------------------------------------------------------------------------
(* Every step of the table is a step of the atomic dictionary or none. *)

LEMMA StepRefines ==
  ASSUME InternInv, NEW t \in Caller,
         Step(t) \/ \E r \in String : Intern(t, r)
  PROVE  [Linearized!Next]_(Linearized!vars)
<1> DEFINE calls == [u \in Caller |-> [str |-> str[u], looked |-> Looked(u), answer |-> answer[u]]]
           After(to) == IF to \in {"draw", "emplaceId", "emplaceStr"} THEN "in vain" ELSE "no"
<1>1. /\ ThreadInv(t) /\ TableTypeOK
      /\ \A s \in String : s # NoStr
      /\ DOMAIN str = Caller /\ DOMAIN answer = Caller /\ DOMAIN pc = Caller
  BY TableAssumption DEF InternInv, TableTypeOK
<1>0. pc[t] # "idle" => str[t] \in String
  BY <1>1 DEF ThreadInv, TableTypeOK
<1>s. PICK s : s = str[t]
  OBVIOUS
<1>i. PICK i : i = id[t]
  OBVIOUS
\* A step is one of the thread's own call.
<1>c. ASSUME NEW to, NEW r, NEW a, pc' = [pc EXCEPT ![t] = to],
             str' = [str EXCEPT ![t] = r], answer' = [answer EXCEPT ![t] = a]
      PROVE  calls' = [calls EXCEPT ![t] = [str |-> r, looked |-> After(to), answer |-> a]]
  BY <1>1, <1>c DEF Looked
<1>2. CASE \E r \in String : Intern(t, r)
  <2>1. PICK r \in String : Intern(t, r)
    BY <1>2
  <2>2. calls[t] = Linearized!NoCall
    BY <1>1, <2>1 DEF Intern, Move, ThreadInv, Linearized!NoCall, Looked
  <2>3. answer' = [answer EXCEPT ![t] = NoId]
    BY <1>1, <2>1, <2>2 DEF Intern, TableTypeOK, Linearized!NoCall
  <2>4. UNCHANGED str_to_id /\ pc' = [pc EXCEPT ![t] = "visit"] /\ str' = [str EXCEPT ![t] = r]
    BY <2>1 DEF Intern, Move
  <2>5. calls' = [calls EXCEPT ![t] = [str |-> r, looked |-> "no", answer |-> NoId]]
    BY <1>c, <2>3, <2>4
  <2>6. Linearized!Invoke(t, r)
    BY <2>2, <2>4, <2>5 DEF Linearized!Invoke, Linearized!Now
  <2>7. QED
    BY <2>6 DEF Linearized!Next
<1>3. ASSUME NEW to, pc' = [pc EXCEPT ![t] = to], UNCHANGED <<str_to_id, str, answer>>,
             Looked(t) = After(to)
      PROVE  UNCHANGED Linearized!vars
  <2>1. \A u \in Caller : Looked(u)' = Looked(u)
    BY <1>1, <1>3 DEF Looked
  <2>2. QED
    BY <1>3, <2>1 DEF Linearized!vars
<1>4. ASSUME pc[t] \in {"visit", "draw", "emplaceStr"}, NEW to, NEW a,
             pc' = [pc EXCEPT ![t] = to], str' = str, answer' = [answer EXCEPT ![t] = a]
      PROVE  /\ calls[t].str = s /\ calls[t].answer = NoId /\ calls[t].looked = Looked(t)
             /\ calls' = [calls EXCEPT ![t] =
                           [str |-> s, looked |-> After(to), answer |-> a]]
             /\ s \in String
  <2>1. answer[t] = NoId /\ str[t] \in String
    BY <1>1, <1>4 DEF ThreadInv, TableTypeOK
  <2>2. str' = [str EXCEPT ![t] = s]
    BY <1>1, <1>s, <1>4 DEF TableTypeOK
  <2>3. calls[t] = [str |-> s, looked |-> Looked(t), answer |-> NoId]
    BY <1>s, <2>1
  <2> HIDE DEF calls, After
  <2>4. calls' = [calls EXCEPT ![t] = [str |-> s, looked |-> After(to), answer |-> a]]
    BY <1>c, <1>4, <2>2
  <2>5. QED
    BY <1>s, <2>1, <2>3, <2>4
<1>5. CASE Visit(t)
  <2>1. CASE str_to_id[str[t]] = NoId
    <3>1. pc[t] = "visit" /\ pc' = [pc EXCEPT ![t] = "draw"] /\ UNCHANGED <<str_to_id, str, answer>>
      BY <1>5, <2>1 DEF Visit, Move
    <3>2. answer' = [answer EXCEPT ![t] = NoId]
      BY <1>1, <3>1 DEF ThreadInv, TableTypeOK
    <3>3. Linearized!Miss(t, s) /\ s \in String
      BY <1>s, <1>4, <2>1, <3>1, <3>2 DEF Linearized!Miss, Linearized!Asked, Linearized!Now
    <3>4. QED
      BY <3>3 DEF Linearized!Next
  <2>2. CASE str_to_id[str[t]] # NoId
    <3>1. /\ pc[t] = "visit" /\ pc' = [pc EXCEPT ![t] = "return"] /\ UNCHANGED <<str_to_id, str>>
          /\ answer' = [answer EXCEPT ![t] = str_to_id[s]]
      BY <1>s, <1>5, <2>2 DEF Visit, Move
    <3>2. Linearized!Find(t, s) /\ s \in String
      BY <1>s, <1>4, <2>2, <3>1 DEF Linearized!Find, Linearized!Asked, Linearized!Now
    <3>3. QED
      BY <3>2 DEF Linearized!Next
  <2>3. QED
    BY <2>1, <2>2
<1>6. CASE Draw(t)
  <2>1. CASE next_id <= PayloadMask
    <3>1. pc[t] = "draw" /\ pc' = [pc EXCEPT ![t] = "emplaceId"] /\ UNCHANGED <<str_to_id, str, answer>>
      BY <1>1, <1>6, <2>1, TableAssumption DEF Draw, Move, TableTypeOK
    <3>2. QED
      BY <1>3, <3>1 DEF Looked
  <2>2. CASE ~(next_id <= PayloadMask)
    <3>1. /\ pc[t] = "draw" /\ pc' = [pc EXCEPT ![t] = "return"] /\ UNCHANGED <<str_to_id, str>>
          /\ answer' = [answer EXCEPT ![t] = OutOfRange]
      BY <1>6, <2>2 DEF Draw, Move
    <3>2. Linearized!Fail(t, s) /\ s \in String
      BY <1>4, <3>1 DEF Linearized!Fail, Linearized!Asked, Linearized!Now, Looked
    <3>3. QED
      BY <3>2 DEF Linearized!Next
  <2>3. QED
    BY <2>1, <2>2
<1>7. CASE EmplaceId(t)
  <2>1. pc[t] = "emplaceId" /\ pc' = [pc EXCEPT ![t] = "emplaceStr"] /\ UNCHANGED <<str_to_id, str, answer>>
    BY <1>7 DEF EmplaceId, Move
  <2>2. QED
    BY <1>3, <2>1 DEF Looked
<1>8. CASE EmplaceStr(t)
  <2>1. CASE str_to_id[str[t]] = NoId
    <3>1. id[t] \in Ids /\ \A r \in String : str_to_id[r] # id[t]
      BY <1>1, <1>8 DEF EmplaceStr, Move, ThreadInv, Owns
    <3>2. /\ pc[t] = "emplaceStr" /\ pc' = [pc EXCEPT ![t] = "return"] /\ UNCHANGED str
          /\ str_to_id' = [str_to_id EXCEPT ![s] = i] /\ answer' = [answer EXCEPT ![t] = i]
      BY <1>s, <1>i, <1>8, <2>1 DEF EmplaceStr, Move
    <3>3. Linearized!Add(t, s, i) /\ s \in String
      BY <1>s, <1>i, <1>4, <2>1, <3>1, <3>2 DEF Linearized!Add, Linearized!Asked, Linearized!Now
    <3>4. QED
      BY <1>i, <3>1, <3>3 DEF Linearized!Next
  <2>2. CASE str_to_id[str[t]] # NoId
    <3>1. /\ pc[t] = "emplaceStr" /\ pc' = [pc EXCEPT ![t] = "erase"] /\ UNCHANGED <<str_to_id, str>>
          /\ answer' = [answer EXCEPT ![t] = str_to_id[s]]
      BY <1>s, <1>8, <2>2 DEF EmplaceStr, Move
    <3>2. Linearized!Find(t, s) /\ s \in String
      BY <1>s, <1>4, <2>2, <3>1 DEF Linearized!Find, Linearized!Asked, Linearized!Now
    <3>3. QED
      BY <3>2 DEF Linearized!Next
  <2>3. QED
    BY <2>1, <2>2
<1>9. CASE Erase(t)
  <2>1. pc[t] = "erase" /\ pc' = [pc EXCEPT ![t] = "return"] /\ UNCHANGED <<str_to_id, str, answer>>
    BY <1>9 DEF Erase, Move
  <2>2. QED
    BY <1>3, <2>1 DEF Looked
<1>10. CASE ReturnId(t)
  <2>1. answer[t] # NoId
    BY <1>1, <1>10 DEF ReturnId, Move, ThreadInv
  <2>2. calls' = [calls EXCEPT ![t] = Linearized!NoCall]
    BY <1>10, <1>c DEF ReturnId, Move, Linearized!NoCall
  <2>3. Linearized!Return(t)
    BY <1>10, <2>1, <2>2 DEF ReturnId, Linearized!Return
  <2>4. QED
    BY <2>3 DEF Linearized!Next
<1>11. QED
  BY <1>2, <1>5, <1>6, <1>7, <1>8, <1>9, <1>10 DEF Step

(***************************************************************************)
(* The table implements the atomic dictionary of InternSpec: equal strings *)
(* get equal ids and distinct ones distinct ids, for every interleaving of *)
(* any number of threads.                                                  *)
(***************************************************************************)
THEOREM Linearizable == TableSpec => KeepsDictionary
<1>1. InitTable => Linearized!Init
  BY DEF InitTable, Linearized!Init, Linearized!NoCall, Looked
<1>2. ASSUME InternInv, [TableNext]_tableVars PROVE [Linearized!Next]_(Linearized!vars)
  <2>1. CASE UNCHANGED tableVars
    BY <2>1 DEF tableVars, Linearized!vars, Looked
  <2>2. CASE TableNext
    BY <1>2, <2>2, StepRefines DEF TableNext
  <2>3. QED
    BY <1>2, <2>1, <2>2
<1>3. QED
  BY <1>1, <1>2, InternInvariant, PTL DEF TableSpec, KeepsDictionary, Linearized!Spec
=============================================================================
