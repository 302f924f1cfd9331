------------------------------ MODULE SlotProbe ------------------------------
(***************************************************************************)
(* Slots as compute nodes see them: the linear probe that looks a key up   *)
(* in a region, and the rule that turns the votes of the backups into a    *)
(* decision (tdx-dist/src/cluster.c).                                      *)
(*                                                                         *)
(* A key is identified with its 64-bit hash, a value with what it decrypts *)
(* to; the MAC of a slot that was read whole is taken to verify.           *)
(***************************************************************************)
EXTENDS Naturals, FiniteSets

CONSTANTS
  Keys,     \* the keys, with different hashes
  Values,   \* the values
  NoKey,    \* key_hash of a zeroed slot
  NoValue   \* the empty value: a zeroed slot, a deletion

ASSUME KeysAssumption == Keys # {} /\ NoKey \notin Keys /\ NoValue \notin Values

(* td_slot_t.  The flag is "tombstone" when VALID and TOMBSTONE are set. *)
Slot ==
  [guard : Nat, visible : Nat, key : Keys \cup {NoKey},
   flag : {"none", "valid", "tombstone"}, value : Values \cup {NoValue},
   tie : Nat]

ZeroSlot ==
  [guard |-> 0, visible |-> 0, key |-> NoKey, flag |-> "none",
   value |-> NoValue, tie |-> 0]

IsEmpty(s) ==
  s.guard = 0 /\ s.visible = 0 /\ s.key = NoKey /\ s.flag = "none"

(* A commit writes the body first and the guard last. *)
Whole(s) == s.guard = s.visible

Present(s, k) == Whole(s) /\ s.key = k /\ s.flag = "valid"

-----------------------------------------------------------------------------
(* td_slot_probe_t.  While a probe runs, examined counts the slots read so *)
(* far; over says that it stopped before the end of the region.  slot is   *)
(* the candidate, which is the key's own slot when the key was found.      *)
Probe ==
  [examined : Nat, over : BOOLEAN, found : BOOLEAN, valid : BOOLEAN,
   at : Nat, slot : Slot]

NewProbe ==
  [examined |-> 0, over |-> FALSE, found |-> FALSE, valid |-> FALSE,
   at |-> 0, slot |-> ZeroSlot]

Take(pr, s, i) == [pr EXCEPT !.valid = TRUE, !.at = i, !.slot = s]

(* The first slot that could take the key is the candidate. *)
Candidate(pr, s, i) == IF pr.valid THEN pr ELSE Take(pr, s, i)

(* What slot s, read at index i, does to a probe for key k. *)
Seen(pr, s, i, k) ==
  CASE ~ Whole(s)                           -> pr
    [] Whole(s) /\ s.flag # "none" /\ s.key = k
         -> [Take(pr, s, i) EXCEPT !.found = TRUE, !.over = TRUE]
    [] Whole(s) /\ s.flag = "tombstone" /\ s.key # k -> Candidate(pr, s, i)
    [] IsEmpty(s)                           -> [Candidate(pr, s, i) EXCEPT !.over = TRUE]
    [] OTHER                                -> pr

(* Faulty variant: an empty slot does not end the probe, and the last slot *)
(* that could take the key is kept as the candidate                        *)
ExaminedToTheEnd(pr, s, i, k) ==
  IF IsEmpty(s)
  THEN [Take(pr, s, i) EXCEPT !.examined = @ + 1]
  ELSE [Seen(pr, s, i, k) EXCEPT !.examined = @ + 1]

Examined(pr, s, i, k) == [Seen(pr, s, i, k) EXCEPT !.examined = @ + 1]

-----------------------------------------------------------------------------
(* td_vote_t *)
Vote   == [ok : BOOLEAN, tie : Nat]
NoVote == [ok |-> FALSE, tie |-> 0]

(* td_evaluate_votes: 1 all backups, 2 a majority, 3 the smallest tie      *)
(* breaker, 0 lost.                                                        *)
Rule(votes, backups, mine) ==
  LET won  == {b \in backups : votes[b].ok}
      ties == {votes[b].tie : b \in backups \ won} \ {0}
  IN IF won = backups THEN 1
     ELSE IF 2 * Cardinality(won) > Cardinality(backups) THEN 2
     ELSE IF \A t \in ties : mine < t THEN 3
     ELSE 0
=============================================================================
