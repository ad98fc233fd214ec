----------------------------- MODULE InternSpec -----------------------------
(***************************************************************************)
(* What an intern table promises to concurrent callers: one atomic         *)
(* dictionary from strings to ids.  A call takes effect at one moment      *)
(* between its invocation and its return; a string's id is unique and      *)
(* never changes.                                                          *)
(***************************************************************************)
CONSTANTS Caller, String, NoStr, Ids, NoId, OutOfRange

VARIABLES
  ids,    \* the id of every interned string
  call    \* each thread's call: the string it asked for, whether it has looked
          \* for it in vain, and the answer

vars == <<ids, call>>

NoCall == [str |-> NoStr, looked |-> "no", answer |-> NoId]

Init ==
  /\ ids = [s \in String |-> NoId]
  /\ call = [t \in Caller |-> NoCall]

Asked(t, s) == call[t].str = s /\ call[t].answer = NoId
Now(t, s, looked, answer) ==
  call' = [call EXCEPT ![t] = [str |-> s, looked |-> looked, answer |-> answer]]

Invoke(t, s) ==
  /\ call[t] = NoCall
  /\ Now(t, s, "no", NoId)
  /\ UNCHANGED ids

\* The string was looked for while it was unknown.
Miss(t, s) ==
  /\ Asked(t, s) /\ ids[s] = NoId
  /\ Now(t, s, "in vain", NoId)
  /\ UNCHANGED ids

\* The string is known: its id is the answer.
Find(t, s) ==
  /\ Asked(t, s) /\ ids[s] # NoId
  /\ Now(t, s, "no", ids[s])
  /\ UNCHANGED ids

\* It is not: it gets an id no other string has.
Add(t, s, i) ==
  /\ Asked(t, s) /\ ids[s] = NoId /\ \A r \in String : ids[r] # i
  /\ Now(t, s, "no", i)
  /\ ids' = [ids EXCEPT ![s] = i]

\* Nor does it have to get one, but a known string is always found.
Fail(t, s) ==
  /\ Asked(t, s) /\ call[t].looked = "in vain"
  /\ Now(t, s, "no", OutOfRange)
  /\ UNCHANGED ids

Return(t) ==
  /\ call[t].answer # NoId
  /\ call' = [call EXCEPT ![t] = NoCall]
  /\ UNCHANGED ids

Next ==
  \E t \in Caller :
    \/ \E s \in String : Invoke(t, s) \/ Miss(t, s) \/ Find(t, s) \/ Fail(t, s)
    \/ \E s \in String, i \in Ids : Add(t, s, i)
    \/ Return(t)

Spec == Init /\ [][Next]_vars
=============================================================================
