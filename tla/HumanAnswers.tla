---------------------------- MODULE HumanAnswers ----------------------------
(***************************************************************************)
(* What a person is asked and what becomes of the answer: the rules that   *)
(* decide which shell command needs an approval, the questions of the      *)
(* ask_user tool with their ids, and the two dialogs of the chat page.  No *)
(* state: every definition is a conversion.  A command is the set of the   *)
(* rules whose pattern it matches; an id is the sequence of its base and   *)
(* the numbers appended to it.                                             *)
(***************************************************************************)
EXTENDS Integers, Sequences, SequencesExt, FiniteSets

CONSTANT Null

-----------------------------------------------------------------------------
(* Which command needs an approval *)

DangerousRules == <<"privileged-delete", "recursive-delete", "file-delete", "force-delete",
                    "disk-format", "raw-disk-write", "shutdown", "force-push",
                    "bulk-uninstall", "pipe-remote-script", "recursive-chmod",
                    "registry-delete", "fork-bomb">>

DangerousCategory(rule) ==
  CASE rule = "force-push" -> "git_remote"
    [] rule = "pipe-remote-script" -> "network"
    [] rule \in {"shutdown", "disk-format", "raw-disk-write", "registry-delete",
                 "recursive-chmod", "fork-bomb"} -> "system"
    [] OTHER -> "destructive"

SensitiveRules ==
  <<[rule |-> "git-remote-write", risk |-> "high", category |-> "git_remote"],
    [rule |-> "dependency-change", risk |-> "high", category |-> "dependency_change"],
    [rule |-> "network-request", risk |-> "medium", category |-> "network"],
    [rule |-> "shell-redirection-write", risk |-> "medium", category |-> "workspace_write"]>>

Rules == ToSet(DangerousRules) \union {s.rule : s \in ToSet(SensitiveRules)}

\* What the dialog tells of a call: CommandApproval, in a PendingToolApproval.
Approvals == [rule : Rules, risk : {"medium", "high", "critical"},
              category : {"destructive", "git_remote", "network", "system",
                          "dependency_change", "workspace_write"}]

\* The first dangerous rule, else the first sensitive one, else no approval.
Classify(matches) ==
  LET dangerous == SelectInSeq(DangerousRules, LAMBDA r : r \in matches)
      sensitive == SelectInSeq(SensitiveRules, LAMBDA r : r.rule \in matches)
  IN IF dangerous # 0
     THEN [rule |-> DangerousRules[dangerous], risk |-> "critical",
           category |-> DangerousCategory(DangerousRules[dangerous])]
     ELSE IF sensitive # 0 THEN SensitiveRules[sensitive] ELSE Null

\* The risk a person has to be shown: the highest of the rules that match.
Grade == [medium |-> 1, high |-> 2, critical |-> 3]
RiskOf(rule) ==
  IF rule \in ToSet(DangerousRules) THEN "critical"
  ELSE (CHOOSE s \in ToSet(SensitiveRules) : s.rule = rule).risk
WorstRisk(matches) ==
  RiskOf(CHOOSE r \in matches : \A q \in matches : Grade[RiskOf(q)] <= Grade[RiskOf(r)])

-----------------------------------------------------------------------------
(* Questions *)

DefaultId == <<"q1", "q2", "q3", "q4", "q5", "q6", "q7", "q8">>

\* A taken id gets -2, or the next number that is free.
UniqueId(base, used) ==
  IF base \notin used THEN base
  ELSE Append(base, CHOOSE k \in 2 .. Cardinality(used) + 2 :
                      /\ Append(base, k) \notin used
                      /\ \A j \in 2 .. k - 1 : Append(base, j) \in used)

\* The ids of the questions; a missing one (<<>>) is named after its place.
NormalizeQuestions(raw) ==
  LET base(n) == IF raw[n] = <<>> THEN <<DefaultId[n]>> ELSE raw[n]
      ids[n \in 0 .. Len(raw)] ==
        IF n = 0 THEN <<>> ELSE Append(ids[n - 1], UniqueId(base(n), ToSet(ids[n - 1])))
  IN ids[Len(raw)]

\* What the page sends: one answer per question out of its drafts, which it keeps
\* by id and in which a later entry replaces an earlier one.  Null is "skipped".
Drafted(ids, picks) ==
  [n \in 1 .. Len(ids) |->
     [id |-> ids[n],
      choice |-> picks[CHOOSE m \in 1 .. Len(ids) :
                         ids[m] = ids[n] /\ \A l \in m + 1 .. Len(ids) : ids[l] # ids[n]]]]

\* What the tool reports per question: the first answer with its id, Null if none.
Reported(ids, answers) ==
  [n \in 1 .. Len(ids) |->
     LET found == SelectInSeq(answers, LAMBDA a : a.id = ids[n])
     IN IF found = 0 THEN Null ELSE answers[found].choice]

-----------------------------------------------------------------------------
(* The dialogs of the page: reduceAgentEvent *)

NoDialog == [call |-> Null, question |-> Null]

\* Fault: the question is not copied into the page's state.
ReducedFault(dialog, event) ==
  IF event.type \in {"agent_start", "agent_end"} THEN NoDialog
  ELSE IF event.type = "tool_call_pending" THEN [dialog EXCEPT !.call = event.call]
  ELSE IF event.type \in {"question_pending", "question_resolved"} THEN dialog
  ELSE [dialog EXCEPT !.call = Null]

Reduced(dialog, event) ==
  CASE event.type \in {"agent_start", "agent_end"} -> NoDialog
    [] event.type \in {"message_update", "tool_execution_start", "tool_execution_end"} ->
         [dialog EXCEPT !.call = Null]
    [] event.type = "tool_call_pending" -> [dialog EXCEPT !.call = event.call]
    [] event.type = "question_pending" -> [dialog EXCEPT !.question = event.question]
    [] event.type = "question_resolved" -> [dialog EXCEPT !.question = Null]
=============================================================================
