---------------------------- MODULE SessionProofs ----------------------------
(***************************************************************************)
(* Theorems about a session, for all scripts, plans and lengths: what the  *)
(* client is told and what it is left with on every path through skdb_exec.*)
(***************************************************************************)
EXTENDS Session, SumLaws, SequenceTheorems

\* Where a call of skdb_exec has begun and has not returned.
InCall == {"planned", "running", "rows", "failed", "emitting", "executed"}

\* One message is owned if and only if the client can see one.
Ledger ==
    /\ stage \in {"rows", "failed"} => results = 1
    /\ stage \notin {"rows", "failed"} => results = 0
    /\ stage # "returned" => message = "" /\ owned = 0
    /\ stage = "returned" => owned = IF message = "" THEN 0 ELSE 1
    /\ stage = "start" => handle = "none"
    /\ stage = "ended" => handle # "open"

\* A failing call knows what has failed.
Blame ==
    stage = "failed" =>
        \/ error = "duckdb" /\ left # <<>>
        \/ error = "query aborted by callback"

\* NothingLeaks and Truthful are not inductive: what the client is told when
\* a call returns is decided while the call runs.
Accountable ==
    /\ caller \in Caller
    /\ Ledger
    /\ Blame
    /\ Truthful

LEMMA InitAccountable == Init => Accountable
  BY DEF Init, Accountable, Ledger, Blame, Truthful, Returned

\* What the client does between calls
LEMMA ClientAccountable ==
    ASSUME Accountable, ClientStep
    PROVE  Accountable'
  <1>1. caller' = caller
    BY DEF ClientStep, OpenSucceeds, OpenFails, SkipLine, Misuse, Exec, NextLine,
           Leave
  <1>2. Ledger'
    <2>1. CASE NextLine
      <3>1. owned = (IF message = "" THEN 0 ELSE 1) /\ results = 0
        BY <2>1 DEF NextLine, Accountable, Ledger
      <3>2. message' = "" /\ results' = results /\ stage' = "prompt"
        BY <2>1 DEF NextLine
      <3>3. owned' = IF message = "" THEN owned ELSE owned - 1
        BY <2>1 DEF NextLine, Freed
      <3>4. owned' = 0
        <4>1. CASE message = ""
          BY <3>1, <3>3, <4>1
        <4>2. CASE message # ""
          <5>1. owned = 1
            BY <3>1, <4>2
          <5>2. owned' = owned - 1
            BY <3>3, <4>2
          <5> QED
            BY <5>1, <5>2
        <4> QED
          BY <4>1, <4>2
      <3> QED
        BY <3>1, <3>2, <3>4 DEF Ledger
    <2>2. CASE ~NextLine
      <3>1. /\ stage \in {"start", "prompt"}
            /\ results = 0 /\ message = "" /\ owned = 0
            /\ stage = "start" => handle = "none"
        BY <2>2 DEF ClientStep, OpenSucceeds, OpenFails, SkipLine, Misuse, Exec,
                    Leave, Accountable, Ledger
      <3>2. results' = results /\ message' = "" /\ owned' = owned
        BY <2>2, <3>1
        DEF ClientStep, OpenSucceeds, OpenFails, SkipLine, Misuse, Exec, Leave,
            outcome
      <3>3. /\ stage' \in {"prompt", "returned", "planned", "ended"}
            /\ stage' = "ended" => handle' # "open"
        BY <2>2, <3>1
        DEF ClientStep, OpenSucceeds, OpenFails, SkipLine, Misuse, Exec, Leave
      <3> QED
        BY <3>1, <3>2, <3>3 DEF Ledger
    <2> QED
      BY <2>1, <2>2
  <1>3. Blame' /\ Truthful'
    BY DEF Blame, Truthful, Returned, ClientStep, OpenSucceeds, OpenFails,
           SkipLine, Misuse, Exec, NextLine, Leave
  <1> QED
    BY <1>1, <1>2, <1>3 DEF Accountable

\* A call that ends well
LEMMA SucceedAccountable ==
    ASSUME Accountable, stage \in InCall \ {"rows", "failed"}, Succeed,
           caller' = caller, results' = results
    PROVE  Accountable'
  <1>1. message = "" /\ owned = 0 /\ results = 0
    BY DEF Accountable, Ledger, InCall
  <1>2. /\ stage' = "returned" /\ rc' = "ok" /\ lastError' = ""
        /\ message' = "" /\ owned' = 0
    BY <1>1 DEF Succeed
  <1> QED
    BY <1>1, <1>2 DEF Accountable, Ledger, Blame, Truthful, Returned

\* (So that the leaf that uses it needs no arithmetic.)
LEMMA OneMore == \A n : n = 0 => n + 1 = 1
  OBVIOUS

\* A call that ends with an error, its result destroyed
LEMMA SetErrorAccountable ==
    ASSUME Accountable, stage \in InCall, results' = 0,
           NEW text \in Texts \ {""}, SetError(text),
           text = "duckdb" => left' # <<>>,
           caller' = caller
    PROVE  Accountable'
  <1>1. message = "" /\ owned = 0
    BY DEF Accountable, Ledger, InCall
  <1>2. stage' = "returned" /\ lastError' = text /\ text # ""
    BY DEF SetError
  <1>3. \/ caller.wants /\ rc' = "error" /\ message' = text /\ owned' = 1
        \/ caller.wants /\ rc' = "nomem" /\ message' = "" /\ owned' = 0
        \/ ~caller.wants /\ rc' = "error" /\ message' = "" /\ owned' = 0
    <2>1. owned + 1 = 1
      BY <1>1, OneMore
    <2> QED
      BY <1>1, <2>1, Zenon DEF SetError
  <1>4. Ledger'
    BY <1>2, <1>3 DEF Ledger
  <1>5. Truthful'
    BY <1>2, <1>3 DEF Truthful, Returned
  <1> QED
    BY <1>2, <1>4, <1>5 DEF Accountable, Blame

\* What skdb_exec does before it returns
LEMMA InnerAccountable ==
    ASSUME Accountable,
           \/ UseSketch \/ Query \/ RunStatement \/ StatementFails
           \/ HaveResult \/ AbortRows \/ RowsEndHere
    PROVE  Accountable'
  <1>1. /\ caller' = caller
        /\ stage' \in {"running", "rows", "failed", "emitting", "executed"}
    BY DEF UseSketch, Query, RunStatement, StatementFails, HaveResult, AbortRows,
           RowsEndHere, call
  <1>2. Ledger'
    <2>1. message' = "" /\ owned' = 0
      BY DEF Accountable, Ledger, UseSketch, Query, RunStatement, StatementFails,
             HaveResult, AbortRows, RowsEndHere, outcome
    <2>2. /\ stage' \in {"rows", "failed"} => results' = 1
          /\ stage' \notin {"rows", "failed"} => results' = 0
      <3>1. CASE UseSketch \/ Query \/ RunStatement
        BY <3>1 DEF UseSketch, Query, RunStatement, Accountable, Ledger
      <3>2. CASE StatementFails \/ HaveResult
        <4>1. results = 0 /\ results' = results + 1 /\ stage' \in {"rows", "failed"}
          BY <3>2 DEF StatementFails, HaveResult, Accountable, Ledger
        <4> QED
          BY <4>1
      <3>3. CASE AbortRows
        BY <3>3 DEF AbortRows, Accountable, Ledger
      <3>4. CASE RowsEndHere
        <4>1. /\ results = 1 /\ results' = results - 1
              /\ stage' \in {"emitting", "executed"}
          BY <3>4 DEF RowsEndHere, Accountable, Ledger
        <4> QED
          BY <4>1
      <3> QED
        BY <3>1, <3>2, <3>3, <3>4
    <2> QED
      BY <1>1, <2>1, <2>2 DEF Ledger
  <1>3. Blame'
    BY DEF Blame, UseSketch, Query, RunStatement, StatementFails, HaveResult,
           AbortRows, RowsEndHere
  <1> QED
    BY <1>1, <1>2, <1>3 DEF Accountable, Truthful, Returned

LEMMA CallAccountable ==
    ASSUME Accountable, CallStep
    PROVE  Accountable'
  <1>1. CASE Refuse
    <2>1. /\ stage = "planned" /\ caller' = caller /\ results' = results
          /\ SetError("arguments") \/ SetError("unsupported")
      BY <1>1 DEF Refuse, call
    <2>2. results' = 0
      BY <2>1 DEF Accountable, Ledger
    <2> QED
      BY <2>1, <2>2, SetErrorAccountable DEF InCall, Texts
  <1>2. CASE QueryFails
    <2>1. /\ stage = "failed" /\ caller' = caller /\ left' = left
          /\ results' = results - 1 /\ SetError(error)
      BY <1>2 DEF QueryFails, DestroyFailed, call
    <2>2. results' = 0
      <3>1. results = 1
        BY <2>1 DEF Accountable, Ledger
      <3> QED
        BY <2>1, <3>1
    <2>3. error \in Texts \ {""} /\ (error = "duckdb" => left' # <<>>)
      BY <2>1 DEF Accountable, Blame, Texts
    <2> QED
      BY <2>1, <2>2, <2>3, SetErrorAccountable DEF InCall
  <1>3. CASE EmitAnswer
    <2>1. /\ stage = "emitting" /\ caller' = caller /\ results' = results
          /\ Succeed \/ SetError("query aborted by callback")
      BY <1>3 DEF EmitAnswer, call
    <2>2. results' = 0
      BY <2>1 DEF Accountable, Ledger
    <2> QED
      BY <2>1, <2>2, SucceedAccountable, SetErrorAccountable DEF InCall, Texts
  <1>4. CASE Stream \/ Finish
    BY <1>4, SucceedAccountable DEF Stream, Finish, InCall, call
  <1> QED
    BY <1>1, <1>2, <1>3, <1>4, InnerAccountable DEF CallStep

LEMMA NextAccountable == Accountable /\ [Next]_vars => Accountable'
  <1>1. CASE UNCHANGED vars
    BY <1>1 DEF vars, Accountable, Ledger, Blame, Truthful, Returned
  <1> QED
    BY <1>1, ClientAccountable, CallAccountable DEF Next

LEMMA SpecAccountable == Spec => []Accountable
  BY InitAccountable, NextAccountable, PTL DEF Spec

\* However a call ends, its code, the message the client gets and skdb_errmsg
\* tell the same story, and DuckDB is blamed only when a statement was left
\* unrun (set_error, skdb_exec).
THEOREM SpecTruthful == Spec => []Truthful
  <1>1. Accountable => Truthful
    BY DEF Accountable
  <1> QED
    BY <1>1, SpecAccountable, PTL

\* However many calls there were and however each of them ended, between calls
\* no duckdb_result and no message is left over, and at the end no handle
\* (DuckDBBackend::exec, skdb_free, skdb_close, main).
THEOREM SpecNothingLeaks == Spec => []NothingLeaks
  <1>1. Accountable => NothingLeaks
    BY DEF Accountable, Ledger, NothingLeaks
  <1> QED
    BY <1>1, SpecAccountable, PTL

-----------------------------------------------------------------------------
(* Types *)

LEMMA PlanTyped ==
    ASSUME NEW ts
    PROVE  /\ PlanOf(ts).mode \in {"exact", "approximate"}
           /\ PlanOf(ts).kind \in {"none", "values", "other"}
  <1>1. \A us : /\ ExactPlan(us).mode = "exact" /\ ExactPlan(us).kind = "none"
                /\ OtherMutation(us).mode = "exact" /\ OtherMutation(us).kind = "other"
    BY DEF ExactPlan, OtherMutation
  <1>2. InsertPlan(ts).mode = "exact" /\ InsertPlan(ts).kind \in {"values", "other"}
    BY DEF InsertPlan, OtherMutation, ExactPlan
  <1>3. ApproxPlan(ts).mode = "approximate" /\ ApproxPlan(ts).kind = "none"
    BY DEF ApproxPlan, ExactPlan
  <1> QED
    BY <1>1, <1>2, <1>3 DEF PlanOf

LEMMA InitTyped == Init => TypeOK
  <1> SUFFICES ASSUME Init PROVE TypeOK
    OBVIOUS
  <1>1. plan.mode = "exact" /\ plan.kind = "none"
    BY DEF Init, NoPlan, ExactPlan
  <1>2. lines \in 0..MaxLines
    <2>1. lines = 0
      BY Zenon DEF Init
    <2> QED
      BY <2>1, MaxLinesAssumption
  <1>3. caller \in Caller /\ handle = "none" /\ stage = "start" /\ script = NoScript
    BY Zenon DEF Init
  <1>4. /\ results = 0 /\ owned = 0 /\ error = "" /\ lastError = "" /\ message = ""
        /\ heard = "nothing" /\ rc = "ok"
    BY Zenon DEF Init
  <1> QED
    BY <1>1, <1>2, <1>3, <1>4 DEF TypeOK, Texts

LEMMA NextTyped ==
    ASSUME TypeOK, Accountable, Accountable', [Next]_vars
    PROVE  TypeOK'
  <1>1. CASE UNCHANGED vars
    BY <1>1 DEF vars, TypeOK
  <1>2. CASE ClientStep
    <2>1. /\ caller' \in Caller /\ handle' \in {"none", "open", "closed"}
          /\ lines' \in 0..MaxLines /\ script' \in Scripts \cup {NoScript}
      <3>1. caller' = caller /\ handle' \in {handle, "open", "closed"}
        BY <1>2 DEF ClientStep, OpenSucceeds, OpenFails, SkipLine, Misuse, Exec,
                    NextLine, Leave
      <3>2. lines' = lines \/ (lines < MaxLines /\ lines' = lines + 1)
        BY <1>2 DEF ClientStep, OpenSucceeds, OpenFails, SkipLine, Misuse, Exec,
                    NextLine, Leave
      <3>3. script' = script \/ script' = NoScript \/ script' \in Scripts
        BY <1>2 DEF ClientStep, OpenSucceeds, OpenFails, SkipLine, Misuse, Exec,
                    NextLine, Leave
      <3>4. lines' \in 0..MaxLines
        BY <3>2, MaxLinesAssumption DEF TypeOK
      <3> QED
        BY <3>1, <3>3, <3>4 DEF TypeOK
    <2>2. /\ plan'.mode \in {"exact", "approximate"}
          /\ plan'.kind \in {"none", "values", "other"}
      <3>1. plan' = plan \/ plan' = NoPlan \/ \E ts : plan' = PlanOf(ts)
        BY <1>2 DEF ClientStep, OpenSucceeds, OpenFails, SkipLine, Misuse, Exec,
                    NextLine, Leave
      <3>2. NoPlan.mode = "exact" /\ NoPlan.kind = "none"
        BY DEF NoPlan, ExactPlan
      <3> QED
        BY <3>1, <3>2, PlanTyped DEF TypeOK
    <2>3. /\ stage' \in {"start", "prompt", "planned", "returned", "ended"}
          /\ rc' \in {rc, "ok", "error", "nomem", "misuse"}
      BY <1>2 DEF ClientStep, OpenSucceeds, OpenFails, SkipLine, Misuse, Exec,
                  NextLine, Leave, outcome
    <2>4. /\ error' \in {error, ""} /\ heard' \in {heard, "nothing"}
          /\ lastError' = lastError /\ message' \in {message, ""}
      BY <1>2 DEF ClientStep, OpenSucceeds, OpenFails, SkipLine, Misuse, Exec,
                  NextLine, Leave, outcome
    <2>5. results' \in {0, 1} /\ owned' \in {0, 1}
      BY <2>3 DEF Accountable, Ledger
    <2>6. error' \in Texts /\ lastError' \in Texts /\ message' \in Texts
      BY <2>4 DEF TypeOK, Texts
    <2>7. /\ heard' \in {"nothing", "streamed", "cleared"}
          /\ rc' \in {"ok", "error", "nomem", "misuse"}
      BY <2>3, <2>4 DEF TypeOK
    <2> QED
      BY <2>1, <2>2, <2>3, <2>5, <2>6, <2>7 DEF TypeOK
  <1>3. CASE CallStep
    <2>1. UNCHANGED call
      BY <1>3 DEF CallStep, Refuse, UseSketch, Query, RunStatement, StatementFails,
                  HaveResult, AbortRows, QueryFails, RowsEndHere, EmitAnswer,
                  Stream, Finish
    <2>2. stage' \in {"running", "rows", "failed", "emitting", "executed", "returned"}
      BY <1>3 DEF CallStep, Refuse, UseSketch, Query, RunStatement, StatementFails,
                  HaveResult, AbortRows, QueryFails, RowsEndHere, EmitAnswer,
                  Stream, Finish, Succeed, SetError
    <2>3. /\ error' \in {error, "duckdb", "query aborted by callback"}
          /\ heard' \in {heard, "streamed", "cleared"}
      BY <1>3 DEF CallStep, Refuse, UseSketch, Query, RunStatement, StatementFails,
                  HaveResult, AbortRows, QueryFails, RowsEndHere, EmitAnswer,
                  Stream, Finish
    <2>4. UNCHANGED outcome \/ Succeed \/ \E text \in Texts : SetError(text)
      <3>1. error \in Texts /\ {"arguments", "unsupported", "query aborted by callback"}
                                  \subseteq Texts
        BY DEF TypeOK, Texts
      <3> HIDE DEF Texts
      <3> QED
        BY <1>3, <3>1 DEF CallStep, Refuse, UseSketch, Query, RunStatement,
                          StatementFails, HaveResult, AbortRows, QueryFails,
                          RowsEndHere, EmitAnswer, Stream, Finish
    <2>5. lastError' \in Texts /\ message' \in Texts
      BY <2>4 DEF outcome, Succeed, SetError, TypeOK, Texts
    <2>6. rc' \in {"ok", "error", "nomem", "misuse"}
      BY <2>4 DEF outcome, Succeed, SetError, TypeOK
    <2>7. results' \in {0, 1} /\ owned' \in {0, 1}
      BY <2>2 DEF Accountable, Ledger
    <2>8. error' \in Texts /\ heard' \in {"nothing", "streamed", "cleared"}
      BY <2>3 DEF TypeOK, Texts
    <2>9. /\ caller' \in Caller /\ handle' \in {"none", "open", "closed"}
          /\ lines' \in 0..MaxLines /\ script' \in Scripts \cup {NoScript}
          /\ plan'.mode \in {"exact", "approximate"}
          /\ plan'.kind \in {"none", "values", "other"}
      BY <2>1 DEF TypeOK, call
    <2> QED
      BY <2>2, <2>5, <2>6, <2>7, <2>8, <2>9 DEF TypeOK
  <1> QED
    BY <1>1, <1>2, <1>3 DEF Next

\* Every call finds plans of the planner, codes and messages of the API, and
\* at most one message to free and one result to destroy (skdb_exec).
THEOREM SpecTypeOK == Spec => []TypeOK
  <1>1. TypeOK /\ Accountable /\ Accountable' /\ [Next]_vars => TypeOK'
    BY NextTyped
  <1> QED
    BY InitTyped, <1>1, SpecAccountable, PTL DEF Spec

-----------------------------------------------------------------------------
(* Texts: what Tokenize makes of texts put together *)

LEMMA Upwards ==
    ASSUME NEW S, 0 \in S, \A n \in Nat : n \in S => n + 1 \in S
    PROVE  \A n \in Nat : n \in S
  <1> DEFINE Missing == {n \in Nat : n \notin S}
  <1>1. ASSUME Missing # {} PROVE FALSE
    <2>1. PICK n \in Missing : \A m \in Missing : n <= m
      <3>1. Missing \in SUBSET Nat
        OBVIOUS
      <3> HIDE DEF Missing
      <3> QED
        BY <1>1, <3>1, HasLeast
    <2>2. n # 0 /\ n - 1 \in Nat
      BY <2>1
    <2>3. n - 1 \notin Missing
      BY <2>1, <2>2
    <2> QED
      BY <2>1, <2>2, <2>3
  <1> QED
    BY <1>1

\* The lexemes of texts; the semicolon is one of them.
Letter == Lexeme \cup {Semicolon}
Token == {TokenOf(l) : l \in Letter}

LEMMA TokenType ==
    ASSUME NEW l \in Letter
    PROVE  TokenOf(l) \in Token
  BY DEF Token

\* The recursion of Tokenize.
TokensStep(f, sql, n) ==
    IF n = 0 THEN <<>>
    ELSE IF sql[n].form = "comment" THEN f[n - 1]
    ELSE Append(f[n - 1], TokenOf(sql[n]))
TokensUpto(f, sql, k) == f = [n \in 0..k |-> TokensStep(f, sql, n)]
TokensOf(sql) == CHOOSE f : TokensUpto(f, sql, Len(sql))

LEMMA TokensExist ==
    ASSUME NEW sql
    PROVE  \A k \in Nat : \E f : TokensUpto(f, sql, k)
  <1> DEFINE S == {k \in Nat : \E f : TokensUpto(f, sql, k)}
  <1>1. 0 \in S
    <2> DEFINE f == [n \in 0..0 |-> <<>>]
    <2>1. \A n \in 0..0 : TokensStep(f, sql, n) = <<>>
      BY DEF TokensStep
    <2>2. TokensUpto(f, sql, 0)
      BY <2>1 DEF TokensUpto
    <2> QED
      BY <2>2
  <1>2. ASSUME NEW k \in Nat, k \in S PROVE k + 1 \in S
    <2>1. PICK f : TokensUpto(f, sql, k)
      BY <1>2
    <2> DEFINE g == [n \in 0..k + 1 |-> TokensStep(f, sql, n)]
    <2>2. \A n \in 0..k : n \in 0..k + 1 /\ g[n] = f[n]
      BY <2>1 DEF TokensUpto
    <2>3. \A n \in 0..k + 1 : n # 0 => n - 1 \in 0..k
      OBVIOUS
    <2>4. \A n \in 0..k + 1 : TokensStep(g, sql, n) = TokensStep(f, sql, n)
      <3> HIDE DEF g
      <3> QED
        BY <2>2, <2>3 DEF TokensStep
    <2>5. TokensUpto(g, sql, k + 1)
      BY <2>4 DEF TokensUpto
    <2> QED
      BY <2>5
  <1> HIDE DEF S
  <1>3. \A k \in Nat : k \in S
    BY <1>1, <1>2, Upwards
  <1> QED
    BY <1>3 DEF S

LEMMA TokensAre ==
    ASSUME NEW sql \in Seq(Letter)
    PROVE  /\ Tokenize(sql) = TokensOf(sql)[Len(sql)]
           /\ TokensOf(sql)[0] = <<>>
           /\ \A n \in 1..Len(sql) :
                 TokensOf(sql)[n] = IF sql[n].form = "comment" THEN TokensOf(sql)[n - 1]
                                    ELSE Append(TokensOf(sql)[n - 1], TokenOf(sql[n]))
  <1>1. Len(sql) \in Nat
    OBVIOUS
  <1>2. TokensUpto(TokensOf(sql), sql, Len(sql))
    BY <1>1, TokensExist DEF TokensOf
  <1>3. \A n \in 0..Len(sql) : TokensOf(sql)[n] = TokensStep(TokensOf(sql), sql, n)
    BY <1>2 DEF TokensUpto
  <1>4. Tokenize(sql) = TokensOf(sql)[Len(sql)]
    <2> DEFINE f == CHOOSE f : f = [n \in 0..Len(sql) |->
                      IF n = 0 THEN <<>>
                      ELSE IF sql[n].form = "comment" THEN f[n - 1]
                      ELSE Append(f[n - 1], TokenOf(sql[n]))]
    <2>1. f = TokensOf(sql)
      BY DEF TokensOf, TokensUpto, TokensStep
    <2>2. Tokenize(sql) = f[Len(sql)]
      BY DEF Tokenize
    <2> HIDE DEF f
    <2> QED
      BY <2>1, <2>2
  <1>5. TokensOf(sql)[0] = <<>>
    <2>1. 0 \in 0..Len(sql)
      BY <1>1
    <2>2. TokensOf(sql)[0] = TokensStep(TokensOf(sql), sql, 0)
      BY <1>3, <2>1
    <2> QED
      BY <2>2 DEF TokensStep
  <1>6. ASSUME NEW n \in 1..Len(sql)
        PROVE  TokensOf(sql)[n] = IF sql[n].form = "comment" THEN TokensOf(sql)[n - 1]
                                  ELSE Append(TokensOf(sql)[n - 1], TokenOf(sql[n]))
    <2>1. n \in 0..Len(sql) /\ n # 0
      BY <1>1
    <2>2. TokensOf(sql)[n] = TokensStep(TokensOf(sql), sql, n)
      BY <1>3, <2>1
    <2> QED
      BY <2>1, <2>2 DEF TokensStep
  <1> QED
    BY <1>4, <1>5, <1>6

LEMMA TokensType ==
    ASSUME NEW sql \in Seq(Letter)
    PROVE  /\ \A n \in 0..Len(sql) : TokensOf(sql)[n] \in Seq(Token)
           /\ Tokenize(sql) \in Seq(Token)
  <1> DEFINE f == TokensOf(sql)
             Good(n) == n <= Len(sql) => f[n] \in Seq(Token)
             S == {n \in Nat : Good(n)}
  <1>1. /\ Tokenize(sql) = f[Len(sql)] /\ f[0] = <<>> /\ Len(sql) \in Nat
        /\ \A n \in 1..Len(sql) : f[n] = IF sql[n].form = "comment" THEN f[n - 1]
                                         ELSE Append(f[n - 1], TokenOf(sql[n]))
    BY TokensAre
  <1> HIDE DEF f
  <1>2. Good(0)
    BY <1>1
  <1>3. ASSUME NEW n \in Nat, Good(n) PROVE Good(n + 1)
    <2>1. SUFFICES ASSUME n + 1 <= Len(sql) PROVE f[n + 1] \in Seq(Token)
      OBVIOUS
    <2>2. f[n] \in Seq(Token) /\ sql[n + 1] \in Letter
          /\ n + 1 \in 1..Len(sql) /\ (n + 1) - 1 = n
      BY <1>1, <1>3, <2>1
    <2>3. TokenOf(sql[n + 1]) \in Token
      BY <2>2, TokenType
    <2>4. f[n + 1] = IF sql[n + 1].form = "comment" THEN f[n]
                     ELSE Append(f[n], TokenOf(sql[n + 1]))
      BY <1>1, <2>2
    <2> QED
      BY <2>2, <2>3, <2>4
  <1> HIDE DEF Good
  <1>4. \A n \in Nat : Good(n)
    <2>1. 0 \in S /\ \A n \in Nat : n \in S => n + 1 \in S
      BY <1>2, <1>3
    <2> HIDE DEF S
    <2>2. \A n \in Nat : n \in S
      BY <2>1, Upwards
    <2> QED
      BY <2>2 DEF S
  <1>5. \A n \in 0..Len(sql) : f[n] \in Seq(Token)
    BY <1>1, <1>4 DEF Good
  <1> QED
    BY <1>1, <1>5 DEF f

LEMMA TokenizeJoin ==
    ASSUME NEW a \in Seq(Letter), NEW b \in Seq(Letter)
    PROVE  Tokenize(a \o b) = Tokenize(a) \o Tokenize(b)
  <1> DEFINE c == a \o b
             f == TokensOf(c)
             g == TokensOf(a)
             h == TokensOf(b)
             Step(t, s, n) == t[n] = IF s[n].form = "comment" THEN t[n - 1]
                                     ELSE Append(t[n - 1], TokenOf(s[n]))
  <1>1. /\ c \in Seq(Letter) /\ Len(c) = Len(a) + Len(b)
        /\ Len(a) \in Nat /\ Len(b) \in Nat
        /\ \A n \in 1..Len(a) : c[n] = a[n]
        /\ \A n \in 1..Len(b) : c[Len(a) + n] = b[n]
    OBVIOUS
  <1> HIDE DEF c
  <1>2. /\ f[0] = <<>> /\ Tokenize(c) = f[Len(c)] /\ \A n \in 1..Len(c) : Step(f, c, n)
        /\ g[0] = <<>> /\ Tokenize(a) = g[Len(a)] /\ \A n \in 1..Len(a) : Step(g, a, n)
        /\ h[0] = <<>> /\ Tokenize(b) = h[Len(b)] /\ \A n \in 1..Len(b) : Step(h, b, n)
        /\ \A n \in 0..Len(a) : g[n] \in Seq(Token)
        /\ \A n \in 0..Len(b) : h[n] \in Seq(Token)
    BY <1>1, TokensAre, TokensType
  <1> HIDE DEF f, g, h
  <1>3. \A n \in 0..Len(a) : f[n] = g[n]
    <2> DEFINE Good(n) == n <= Len(a) => f[n] = g[n]
               S == {n \in Nat : Good(n)}
    <2>1. Good(0)
      BY <1>2
    <2>2. ASSUME NEW n \in Nat, Good(n) PROVE Good(n + 1)
      <3>1. SUFFICES ASSUME n + 1 <= Len(a) PROVE f[n + 1] = g[n + 1]
        OBVIOUS
      <3>2. /\ f[n] = g[n] /\ c[n + 1] = a[n + 1] /\ (n + 1) - 1 = n
            /\ n + 1 \in 1..Len(a) /\ n + 1 \in 1..Len(c)
        BY <1>1, <2>2, <3>1
      <3>3. Step(f, c, n + 1) /\ Step(g, a, n + 1)
        BY <1>2, <3>2
      <3> QED
        BY <3>2, <3>3
    <2> HIDE DEF Good
    <2>3. 0 \in S /\ \A n \in Nat : n \in S => n + 1 \in S
      BY <2>1, <2>2
    <2> HIDE DEF S
    <2>4. \A n \in Nat : n \in S
      BY <2>3, Upwards
    <2> QED
      BY <1>1, <2>4 DEF S, Good
  <1>4. \A n \in 0..Len(b) : f[Len(a) + n] = g[Len(a)] \o h[n]
    <2> DEFINE t == g[Len(a)]
               j(n) == t \o h[n]
               Good(n) == n <= Len(b) => f[Len(a) + n] = j(n)
               S == {n \in Nat : Good(n)}
    <2>0. t \in Seq(Token) /\ \A n \in 0..Len(b) : h[n] \in Seq(Token)
      <3>1. Len(a) \in 0..Len(a)
        <4>1. Len(a) \in Nat
          BY <1>1
        <4> QED
          BY ONLY <4>1
      <3> QED
        BY <1>2, <3>1, Zenon
    <2>1. f[Len(a) + 0] = t /\ h[0] = <<>>
      BY <1>1, <1>2, <1>3
    <2> HIDE DEF t
    <2>2. j(0) = t
      BY <2>0, <2>1, ConcatEmptySeq
    <2>3. ASSUME NEW n \in 0..Len(b), n + 1 \in 0..Len(b)
          PROVE  j(n + 1) = IF b[n + 1].form = "comment" THEN j(n)
                            ELSE Append(j(n), TokenOf(b[n + 1]))
      <3> DEFINE o == TokenOf(b[n + 1])
      <3>1. o \in Token /\ n + 1 \in 1..Len(b) /\ (n + 1) - 1 = n
        BY <1>1, <2>3, TokenType
      <3>2. Step(h, b, n + 1)
        BY <1>2, <3>1
      <3>3. h[n] \in Seq(Token)
        BY <2>0
      <3> HIDE DEF o
      <3>4. t \o Append(h[n], o) = Append(t \o h[n], o)
        <4>1. <<o>> \in Seq(Token)
          BY <3>1
        <4>2. Append(h[n], o) = h[n] \o <<o>>
          BY <3>1, <3>3, AppendIsConcat
        <4>3. t \o h[n] \in Seq(Token)
          BY <2>0, <3>3, ConcatProperties
        <4>4. Append(t \o h[n], o) = (t \o h[n]) \o <<o>>
          BY <3>1, <4>3, AppendIsConcat
        <4>5. (t \o h[n]) \o <<o>> = t \o (h[n] \o <<o>>)
          <5> DEFINE u == h[n]
                     v == <<o>>
          <5>1. t \in Seq(Token) /\ u \in Seq(Token) /\ v \in Seq(Token)
            BY <2>0, <3>3, <4>1
          <5> HIDE DEF u, v
          <5>2. (t \o u) \o v = t \o (u \o v)
            BY ONLY <5>1, ConcatAssociative, SMTT(30)
          <5> QED
            BY <5>2 DEF u, v
        <4> QED
          BY <4>2, <4>4, <4>5, Zenon
      <3>5. CASE b[n + 1].form = "comment"
        BY <3>1, <3>2, <3>5
      <3>6. CASE b[n + 1].form # "comment"
        <4>1. h[n + 1] = Append(h[(n + 1) - 1], TokenOf(b[n + 1]))
          BY <3>2, <3>6, Zenon
        <4>2. h[n + 1] = Append(h[n], o)
          BY <3>1, <4>1, Zenon DEF o
        <4> QED
          BY <3>4, <3>6, <4>2, Zenon DEF o
      <3> QED
        BY <3>5, <3>6
    <2> HIDE DEF j
    <2>4. Good(0)
      BY <2>1, <2>2
    <2>5. ASSUME NEW n \in Nat, Good(n) PROVE Good(n + 1)
      <3>1. SUFFICES ASSUME n + 1 <= Len(b) PROVE f[Len(a) + (n + 1)] = j(n + 1)
        OBVIOUS
      <3> DEFINE m == Len(a) + (n + 1)
      <3>2. /\ m - 1 = Len(a) + n /\ m \in 1..Len(c)
            /\ n \in 0..Len(b) /\ n + 1 \in 0..Len(b)
        BY <1>1, <3>1
      <3>3. f[m - 1] = j(n) /\ c[m] = b[n + 1]
        BY <1>1, <2>5, <3>1, <3>2
      <3>4. Step(f, c, m)
        BY <1>2, <3>2
      <3>5. j(n + 1) = IF b[n + 1].form = "comment" THEN j(n)
                       ELSE Append(j(n), TokenOf(b[n + 1]))
        BY <2>3, <3>2
      <3> HIDE DEF m
      <3>6. f[m] = j(n + 1)
        BY <3>3, <3>4, <3>5
      <3> QED
        BY <3>6 DEF m
    <2> HIDE DEF Good
    <2>6. 0 \in S /\ \A n \in Nat : n \in S => n + 1 \in S
      BY <2>4, <2>5
    <2> HIDE DEF S
    <2>7. \A n \in Nat : n \in S
      BY <2>6, Upwards
    <2>8. \A n \in 0..Len(b) : n \in Nat /\ n <= Len(b) /\ Good(n)
      BY <1>1, <2>7 DEF S
    <2> QED
      BY <2>8 DEF Good, j, t
  <1>5. f[Len(a) + Len(b)] = g[Len(a)] \o h[Len(b)]
    <2>1. Len(b) \in 0..Len(b)
      BY <1>1
    <2> QED
      BY <1>4, <2>1, Zenon
  <1> QED
    BY <1>1, <1>2, <1>5, Zenon DEF c

LEMMA TokenizeOne ==
    ASSUME NEW l \in Letter, l.form # "comment"
    PROVE  Tokenize(<<l>>) = <<TokenOf(l)>>
  <1> DEFINE f == TokensOf(<<l>>)
  <1>1. <<l>> \in Seq(Letter) /\ Len(<<l>>) = 1 /\ <<l>>[1] = l
    OBVIOUS
  <1>2. /\ Tokenize(<<l>>) = f[1] /\ f[0] = <<>>
        /\ f[1] = IF l.form = "comment" THEN f[0] ELSE Append(f[0], TokenOf(l))
    <2> DEFINE s == <<l>>
    <2>1. s \in Seq(Letter) /\ Len(s) = 1 /\ s[1] = l /\ 1 \in 1..1
      BY <1>1
    <2> HIDE DEF s
    <2>2. /\ Tokenize(s) = TokensOf(s)[1] /\ TokensOf(s)[0] = <<>>
          /\ TokensOf(s)[1] = IF l.form = "comment" THEN TokensOf(s)[1 - 1]
                              ELSE Append(TokensOf(s)[1 - 1], TokenOf(l))
      BY <2>1, TokensAre
    <2>3. 1 - 1 = 0
      OBVIOUS
    <2> QED
      BY <2>2, <2>3 DEF s
  <1> HIDE DEF f
  <1> QED
    BY <1>2

-----------------------------------------------------------------------------
(* Statements: how DuckDB parts texts put together *)

Semi == TokenOf(Semicolon)

LEMMA SemiIs == Semi \in Token /\ IsSemicolon(Semi) /\ Semi.kind = "other"
  <1>1. Semicolon.form = "sign" /\ Semicolon.text = ";"
    BY Zenon DEF Semicolon
  <1>2. Semicolon \in Letter
    BY Zenon DEF Letter
  <1>3. /\ Semicolon.form # "word" /\ Semicolon.form # "number"
        /\ Semicolon.form \notin {"single", "double"}
        /\ Semicolon.text # "(" /\ Semicolon.text # ")"
        /\ Semicolon.text # "." /\ Semicolon.text # ","
    BY <1>1, Zenon
  <1>4. Semi.kind = "other" /\ Semi.text = ";"
    BY <1>1, <1>3, Zenon DEF Semi, TokenOf
  <1> QED
    BY <1>2, <1>4, Zenon DEF Semi, Token, IsSemicolon

LEMMA SemicolonKind == \A t : IsSemicolon(t) => t.kind = "other"
  BY Zenon DEF IsSemicolon

LEMMA FirstIs ==
    ASSUME NEW ns \in SUBSET Nat, NEW o \in Nat
    PROVE  /\ First(ns, o) \in ns \cup {o}
           /\ \A m \in ns \cup {o} : First(ns, o) <= m
  BY HasLeast DEF First

LEMMA FirstUnique ==
    ASSUME NEW ns \in SUBSET Nat, NEW o \in Nat,
           NEW n \in ns \cup {o}, \A m \in ns \cup {o} : n <= m
    PROVE  First(ns, o) = n
  <1>1. /\ First(ns, o) \in ns \cup {o}
        /\ \A m \in ns \cup {o} : First(ns, o) <= m
    BY FirstIs
  <1>2. First(ns, o) \in Nat /\ n \in Nat
    BY <1>1
  <1>3. First(ns, o) <= n /\ n <= First(ns, o)
    BY <1>1
  <1> QED
    BY <1>2, <1>3

LEMMA KthIs ==
    ASSUME NEW L \in Nat, NEW ns \in SUBSET (1..L), NEW k \in 1..Cardinality(ns)
    PROVE  /\ Kth(ns, k) \in ns
           /\ Cardinality({m \in ns : m <= Kth(ns, k)}) = k
  <1> DEFINE C(n) == {m \in ns : m <= n}
             R(n) == Cardinality(C(n))
             T == {n \in Nat : R(n) >= k}
  <1>1. IsFiniteSet(ns) /\ Cardinality(ns) \in Nat
    <2>1. IsFiniteSet(1..L)
      BY FS_Interval
    <2> QED
      BY <2>1, FS_Subset, FS_CardinalityType
  <1>2. ASSUME NEW n \in Nat PROVE IsFiniteSet(C(n)) /\ R(n) \in Nat
    <2>1. C(n) \in SUBSET ns
      OBVIOUS
    <2> HIDE DEF C
    <2> QED
      BY <1>1, <2>1, FS_Subset, FS_CardinalityType
  <1>3. C(L) = ns /\ C(0) = {}
    <2>1. \A m \in ns : m \in Nat /\ m <= L /\ ~(m <= 0)
      OBVIOUS
    <2> QED
      BY <2>1, Zenon
  <1>4. R(0) = 0
    BY <1>3, FS_EmptySet
  <1>5. R(L) = Cardinality(ns) /\ k \in Nat /\ k >= 1 /\ k <= Cardinality(ns)
    BY <1>1, <1>3
  <1>6. ASSUME NEW n \in Nat, n - 1 \in Nat
        PROVE  /\ n \notin ns => R(n) = R(n - 1)
               /\ n \in ns => R(n) = R(n - 1) + 1
    <2>1. \A m \in ns : m \in Nat /\ (m <= n <=> m <= n - 1 \/ m = n)
      OBVIOUS
    <2>2. CASE n \notin ns
      <3>1. C(n) = C(n - 1)
        BY <2>1, <2>2
      <3> QED
        BY <2>2, <3>1
    <2>3. CASE n \in ns
      <3>1. C(n) = C(n - 1) \cup {n} /\ n \notin C(n - 1)
        <4>1. ~(n <= n - 1)
          OBVIOUS
        <4> QED
          BY <2>1, <2>3, <4>1
      <3>2. IsFiniteSet(C(n - 1))
        BY <1>2, <1>6
      <3> HIDE DEF C
      <3>3. Cardinality(C(n - 1) \cup {n}) = Cardinality(C(n - 1)) + 1
        BY <3>1, <3>2, FS_AddElement
      <3> QED
        BY <2>3, <3>1, <3>3
    <2> QED
      BY <2>2, <2>3
  <1> HIDE DEF R
  <1>7. PICK n \in T : \A m \in T : n <= m
    <2>1. T \in SUBSET Nat /\ L \in T
      BY <1>5
    <2> HIDE DEF T
    <2> QED
      BY <2>1, HasLeast
  <1>8. n \in Nat /\ R(n) >= k /\ n # 0
    BY <1>4, <1>5, <1>7
  <1>9. n - 1 \in Nat /\ R(n) \in Nat /\ R(n - 1) \in Nat
    <2>1. n - 1 \in Nat
      BY <1>8
    <2> QED
      BY <1>2, <1>8, <2>1 DEF R
  <1>10. ~(R(n - 1) >= k)
    <2>1. ~(n <= n - 1)
      BY <1>8
    <2> QED
      BY <1>7, <1>9, <2>1
  <1>11. /\ n \notin ns => R(n) = R(n - 1)
         /\ n \in ns => R(n) = R(n - 1) + 1
    BY <1>6, <1>8, <1>9
  <1>12. n \in ns /\ R(n) = k
    BY <1>5, <1>8, <1>9, <1>10, <1>11
  <1>13. \E m \in ns : Cardinality({i \in ns : i <= m}) = k
    BY <1>12 DEF R
  <1> QED
    BY <1>13, Zenon DEF Kth

LEMMA StartsType ==
    ASSUME NEW a \in Seq(Token)
    PROVE  /\ Starts(a) \in SUBSET (1..Len(a))
           /\ IsFiniteSet(Starts(a)) /\ Cardinality(Starts(a)) \in Nat
  <1>1. Starts(a) \in SUBSET (1..Len(a)) /\ Len(a) \in Nat
    BY DEF Starts
  <1>2. IsFiniteSet(1..Len(a))
    BY <1>1, FS_Interval
  <1> HIDE DEF Starts
  <1> QED
    BY <1>1, <1>2, FS_Subset, FS_CardinalityType

StatementEnd(a, n) == First({m \in n..Len(a) : IsSemicolon(a[m])}, Len(a) + 1)

LEMMA StatementAtIs ==
    ASSUME NEW a \in Seq(Token), NEW n \in Starts(a)
    PROVE  /\ StatementEnd(a, n) \in n + 1..Len(a) + 1
           /\ StatementAt(a, n) = SubSeq(a, n, StatementEnd(a, n) - 1)
           /\ StatementAt(a, n) \in Seq(Token)
           /\ StatementAt(a, n) # <<>> /\ StatementAt(a, n)[1] = a[n]
  <1> DEFINE ns == {m \in n..Len(a) : IsSemicolon(a[m])}
             e == First(ns, Len(a) + 1)
  <1>1. n \in 1..Len(a) /\ ~IsSemicolon(a[n]) /\ Len(a) \in Nat
    BY DEF Starts
  <1>2. /\ ns \in SUBSET Nat /\ Len(a) + 1 \in Nat
        /\ \A m \in ns \cup {Len(a) + 1} : m \in n + 1..Len(a) + 1
    <2>1. \A m \in ns : m \in Nat /\ m >= n /\ m # n /\ m <= Len(a)
      BY <1>1
    <2> QED
      BY <1>1, <2>1
  <1> HIDE DEF ns
  <1>3. e \in ns \cup {Len(a) + 1}
    BY <1>2, FirstIs
  <1>4. e \in n + 1..Len(a) + 1
    BY <1>2, <1>3
  <1>5. StatementAt(a, n) = SubSeq(a, n, e - 1) /\ StatementEnd(a, n) = e
    BY Zenon DEF StatementAt, StatementEnd, ns
  <1> HIDE DEF e
  <1>6. n \in Int /\ e - 1 \in Int /\ n <= e - 1 /\ e - 1 <= Len(a)
    BY <1>1, <1>4
  <1>7. \A i \in n..e - 1 : a[i] \in Token
    BY <1>1, <1>6
  <1>8. /\ SubSeq(a, n, e - 1) \in Seq(Token)
        /\ Len(SubSeq(a, n, e - 1)) = (e - 1) - n + 1
        /\ \A i \in 1..(e - 1) - n + 1 : SubSeq(a, n, e - 1)[i] = a[n + i - 1]
    BY <1>6, <1>7, SubSeqProperties
  <1>9. 1 \in 1..(e - 1) - n + 1 /\ n + 1 - 1 = n /\ (e - 1) - n + 1 # 0
    BY <1>6
  <1>10. SubSeq(a, n, e - 1)[1] = a[n]
    BY <1>8, <1>9
  <1>11. Len(<<>>) = 0
    OBVIOUS
  <1> QED
    BY <1>4, <1>5, <1>8, <1>9, <1>10, <1>11, Zenon

LEMMA PartedIs ==
    ASSUME NEW a \in Seq(Token)
    PROVE  /\ Parted(a) = [k \in 1..Cardinality(Starts(a)) |->
                              StatementAt(a, Kth(Starts(a), k))]
           /\ \A k \in 1..Cardinality(Starts(a)) : Kth(Starts(a), k) \in Starts(a)
           /\ Parted(a) \in Seq(Seq(Token))
           /\ Len(Parted(a)) = Cardinality(Starts(a))
  <1>1. Parted(a) = [k \in 1..Cardinality(Starts(a)) |-> StatementAt(a, Kth(Starts(a), k))]
    BY DEF Parted
  <1>2. /\ Starts(a) \in SUBSET (1..Len(a)) /\ Cardinality(Starts(a)) \in Nat
        /\ Len(a) \in Nat
    BY StartsType
  <1>3. \A k \in 1..Cardinality(Starts(a)) : Kth(Starts(a), k) \in Starts(a)
    BY <1>2, KthIs
  <1>4. \A k \in 1..Cardinality(Starts(a)) : StatementAt(a, Kth(Starts(a), k)) \in Seq(Token)
    BY <1>3, StatementAtIs
  <1> QED
    BY <1>1, <1>2, <1>3, <1>4

\* A statement begins where the text begins or behind a semicolon.
LEMMA PartedStarts ==
    ASSUME NEW a \in Seq(Token), NEW k \in DOMAIN Parted(a)
    PROVE  \E n \in Starts(a) : Parted(a)[k][1] = a[n]
  <1>1. k \in 1..Cardinality(Starts(a)) /\ Kth(Starts(a), k) \in Starts(a)
    BY PartedIs
  <1>2. Parted(a)[k] = StatementAt(a, Kth(Starts(a), k))
    BY <1>1, PartedIs
  <1> QED
    BY <1>1, <1>2, StatementAtIs

\* c is a, a semicolon, and t.
Joins(c, a, t) ==
    /\ c \in Seq(Token) /\ a \in Seq(Token) /\ t \in Seq(Token)
    /\ Len(c) = Len(a) + 1 + Len(t)
    /\ \A n \in 1..Len(a) : c[n] = a[n]
    /\ c[Len(a) + 1] = Semi
    /\ \A n \in 1..Len(t) : c[Len(a) + 1 + n] = t[n]

LEMMA JoinsIs ==
    ASSUME NEW a \in Seq(Token), NEW t \in Seq(Token)
    PROVE  Joins(a \o (<<Semi>> \o t), a, t)
  <1> DEFINE b == <<Semi>> \o t
             c == a \o b
  <1>1. <<Semi>> \in Seq(Token) /\ Len(<<Semi>>) = 1 /\ <<Semi>>[1] = Semi
        /\ Len(t) \in Nat /\ Len(a) \in Nat
    BY SemiIs
  <1>2. /\ b \in Seq(Token) /\ Len(b) = 1 + Len(t)
        /\ \A i \in 1..1 + Len(t) : b[i] = IF i <= 1 THEN <<Semi>>[i] ELSE t[i - 1]
    BY <1>1, ConcatProperties
  <1> HIDE DEF b
  <1>3. /\ c \in Seq(Token) /\ Len(c) = Len(a) + Len(b)
        /\ \A i \in 1..Len(a) + Len(b) : c[i] = IF i <= Len(a) THEN a[i] ELSE b[i - Len(a)]
    BY <1>2, ConcatProperties
  <1> HIDE DEF c
  <1>4. \A n \in 1..Len(a) : c[n] = a[n]
    BY <1>1, <1>2, <1>3
  <1>5. c[Len(a) + 1] = Semi
    <2>1. /\ Len(a) + 1 \in 1..Len(a) + Len(b) /\ ~(Len(a) + 1 <= Len(a))
          /\ (Len(a) + 1) - Len(a) = 1 /\ 1 \in 1..1 + Len(t)
      BY <1>1, <1>2
    <2>2. c[Len(a) + 1] = b[1] /\ b[1] = <<Semi>>[1]
      BY <1>2, <1>3, <2>1
    <2> QED
      BY <1>1, <2>2
  <1>6. ASSUME NEW n \in 1..Len(t) PROVE c[Len(a) + 1 + n] = t[n]
    <2>1. /\ Len(a) + 1 + n \in 1..Len(a) + Len(b) /\ ~(Len(a) + 1 + n <= Len(a))
          /\ (Len(a) + 1 + n) - Len(a) = 1 + n /\ 1 + n \in 1..1 + Len(t)
          /\ ~(1 + n <= 1) /\ (1 + n) - 1 = n
      BY <1>1, <1>2
    <2>2. c[Len(a) + 1 + n] = b[1 + n]
      BY <1>3, <2>1
    <2>3. b[1 + n] = t[n]
      BY <1>2, <2>1
    <2> QED
      BY <2>2, <2>3
  <1>7. Len(c) = Len(a) + 1 + Len(t)
    BY <1>1, <1>2, <1>3
  <1> QED
    BY <1>3, <1>4, <1>5, <1>6, <1>7 DEF Joins, c, b

LEMMA PartedOne ==
    ASSUME NEW t \in Seq(Token), t # <<>>, NoSemicolon(t)
    PROVE  Parted(t) = <<t>>
  <1>1. Len(t) \in Nat /\ 1 \in 1..Len(t) /\ DOMAIN t = 1..Len(t)
    OBVIOUS
  <1>2. \A n \in 1..Len(t) : ~IsSemicolon(t[n])
    BY <1>1 DEF NoSemicolon
  <1>3. Starts(t) = {1}
    <2>1. 1 \in Starts(t)
      BY <1>1, <1>2 DEF Starts
    <2>2. ASSUME NEW n \in Starts(t), n # 1 PROVE FALSE
      <3>1. n \in 1..Len(t) /\ IsSemicolon(t[n - 1])
        BY <1>1, <2>2 DEF Starts
      <3>2. n - 1 \in 1..Len(t)
        BY <1>1, <2>2, <3>1
      <3> QED
        BY <1>2, <3>1, <3>2
    <2> QED
      BY <2>1, <2>2
  <1>4. Cardinality(Starts(t)) = 1
    BY <1>3, FS_Singleton
  <1>5. Kth(Starts(t), 1) = 1
    <2>1. 1 \in 1..Cardinality(Starts(t))
      BY <1>4
    <2>2. Kth(Starts(t), 1) \in Starts(t)
      BY <2>1, PartedIs
    <2> QED
      BY <1>3, <2>2
  <1>6. StatementEnd(t, 1) = Len(t) + 1
    <2> DEFINE ns == {m \in 1..Len(t) : IsSemicolon(t[m])}
    <2>1. ns = {}
      BY <1>2
    <2>2. ns \in SUBSET Nat /\ Len(t) + 1 \in Nat /\ Len(t) + 1 \in ns \cup {Len(t) + 1}
          /\ \A m \in ns \cup {Len(t) + 1} : Len(t) + 1 <= m
      BY <1>1, <2>1
    <2> HIDE DEF ns
    <2>3. First(ns, Len(t) + 1) = Len(t) + 1
      BY <2>2, FirstUnique
    <2> QED
      BY <2>3 DEF StatementEnd, ns
  <1>7. StatementAt(t, 1) = t
    <2>1. StatementAt(t, 1) = SubSeq(t, 1, StatementEnd(t, 1) - 1)
      BY <1>3, StatementAtIs
    <2>2. (Len(t) + 1) - 1 = Len(t)
      BY <1>1
    <2>3. SubSeq(t, 1, Len(t)) = t
      BY SubSeqFull
    <2> QED
      BY <1>6, <2>1, <2>2, <2>3, Zenon
  <1>8. Parted(t) = [k \in 1..1 |-> t]
    <2>1. Parted(t) = [k \in 1..1 |-> StatementAt(t, Kth(Starts(t), k))]
      BY <1>4, PartedIs
    <2>2. \A k \in 1..1 : StatementAt(t, Kth(Starts(t), k)) = t
      BY <1>5, <1>7
    <2> QED
      BY <2>1, <2>2
  <1> QED
    BY <1>8

LEMMA StartsJoined ==
    ASSUME NEW a, NEW t, NEW c, Joins(c, a, t), t # <<>>, NoSemicolon(t)
    PROVE  Starts(c) = Starts(a) \cup {Len(a) + 2}
  <1>1. /\ Len(a) \in Nat /\ Len(t) \in Nat /\ Len(t) >= 1
        /\ DOMAIN a = 1..Len(a) /\ DOMAIN t = 1..Len(t) /\ DOMAIN c = 1..Len(c)
        /\ Len(c) = Len(a) + 1 + Len(t)
        /\ \A n \in 1..Len(a) : c[n] = a[n]
        /\ c[Len(a) + 1] = Semi
        /\ \A n \in 1..Len(t) : c[Len(a) + 1 + n] = t[n]
    BY DEF Joins
  <1>2. \A n \in 1..Len(t) : ~IsSemicolon(t[n])
    BY <1>1 DEF NoSemicolon
  <1>3. ASSUME NEW n \in 1..Len(a) PROVE n \in Starts(c) <=> n \in Starts(a)
    <2>1. n \in 1..Len(c) /\ c[n] = a[n]
      BY <1>1
    <2>2. n # 1 => c[n - 1] = a[n - 1]
      BY <1>1
    <2> QED
      BY <1>1, <2>1, <2>2 DEF Starts
  <1>4. Len(a) + 1 \notin Starts(c)
    BY <1>1, SemiIs DEF Starts
  <1>5. Len(a) + 2 \in Starts(c)
    <2>1. Len(a) + 1 + 1 = Len(a) + 2 /\ (Len(a) + 2) - 1 = Len(a) + 1 /\ 1 \in 1..Len(t)
          /\ Len(a) + 2 \in 1..Len(c)
      BY <1>1
    <2>2. c[Len(a) + 2] = t[1]
      BY <1>1, <2>1
    <2> QED
      BY <1>1, <1>2, <2>1, <2>2, SemiIs DEF Starts
  <1>6. ASSUME NEW n \in 1..Len(c), n > Len(a) + 2 PROVE n \notin Starts(c)
    <2> DEFINE m == n - (Len(a) + 2)
    <2>1. m \in 1..Len(t) /\ Len(a) + 1 + m = n - 1 /\ n # 1
      BY <1>1, <1>6
    <2>2. c[n - 1] = t[m]
      BY <1>1, <2>1
    <2> QED
      BY <1>2, <2>1, <2>2 DEF Starts
  <1>7. Starts(a) \in SUBSET (1..Len(a)) /\ Starts(c) \in SUBSET (1..Len(c))
    BY <1>1 DEF Starts
  <1>8. \A n \in 1..Len(c) : n \in 1..Len(a) \/ n = Len(a) + 1 \/ n = Len(a) + 2 \/ n > Len(a) + 2
    BY <1>1
  <1>9. \A n \in Starts(c) : n \in Starts(a) \cup {Len(a) + 2}
    BY <1>3, <1>4, <1>6, <1>7, <1>8
  <1>10. \A n \in Starts(a) : n \in Starts(c)
    BY <1>3, <1>7
  <1> QED
    BY <1>5, <1>9, <1>10

LEMMA StatementsJoined ==
    ASSUME NEW a, NEW t, NEW c, Joins(c, a, t), t # <<>>, NoSemicolon(t)
    PROVE  /\ \A n \in Starts(a) : StatementAt(c, n) = StatementAt(a, n)
           /\ StatementAt(c, Len(a) + 2) = t
  <1>1. /\ Len(a) \in Nat /\ Len(t) \in Nat /\ Len(t) >= 1
        /\ c \in Seq(Token) /\ a \in Seq(Token) /\ t \in Seq(Token)
        /\ DOMAIN a = 1..Len(a) /\ DOMAIN t = 1..Len(t) /\ DOMAIN c = 1..Len(c)
        /\ Len(c) = Len(a) + 1 + Len(t)
        /\ \A n \in 1..Len(a) : c[n] = a[n]
        /\ c[Len(a) + 1] = Semi
        /\ \A n \in 1..Len(t) : c[Len(a) + 1 + n] = t[n]
    BY DEF Joins
  <1>2. Starts(c) = Starts(a) \cup {Len(a) + 2}
    BY StartsJoined
  <1>3. ASSUME NEW n \in Starts(a) PROVE StatementAt(c, n) = StatementAt(a, n)
    <2> DEFINE e == StatementEnd(a, n)
               ns == {m \in n..Len(a) : IsSemicolon(a[m])}
               os == {m \in n..Len(c) : IsSemicolon(c[m])}
    <2>1. /\ n \in 1..Len(a) /\ e \in n + 1..Len(a) + 1 /\ n \in Starts(c)
          /\ StatementAt(a, n) = SubSeq(a, n, e - 1)
          /\ StatementAt(c, n) = SubSeq(c, n, StatementEnd(c, n) - 1)
      BY <1>1, <1>2, StartsType, StatementAtIs
    <2>2. e \in ns \cup {Len(a) + 1} /\ \A m \in ns \cup {Len(a) + 1} : e <= m
      <3>1. ns \in SUBSET Nat /\ Len(a) + 1 \in Nat
        BY <1>1, <2>1
      <3>2. e = First(ns, Len(a) + 1)
        BY Zenon DEF StatementEnd
      <3> HIDE DEF ns, e
      <3> QED
        BY <3>1, <3>2, FirstIs
    <2> HIDE DEF e
    <2>3. e \in os
      <3>1. e \in n..Len(c)
        BY <1>1, <2>1
      <3>2. IsSemicolon(c[e])
        <4>1. CASE e \in ns
          BY <1>1, <2>1, <4>1
        <4>2. CASE e = Len(a) + 1
          BY <1>1, <4>2, SemiIs
        <4> QED
          BY <2>2, <4>1, <4>2
      <3> QED
        BY <3>1, <3>2
    <2>4. ASSUME NEW m \in os PROVE e <= m
      <3>1. m \in n..Len(c) /\ IsSemicolon(c[m]) /\ m \in Nat
        BY <2>1
      <3>2. CASE m <= Len(a)
        <4>1. m \in 1..Len(a) /\ m \in n..Len(a)
          BY <2>1, <3>1, <3>2
        <4>2. m \in ns
          BY <1>1, <3>1, <4>1
        <4> QED
          BY <2>2, <4>2
      <3>3. CASE ~(m <= Len(a))
        BY <1>1, <2>1, <3>1, <3>3
      <3> QED
        BY <3>2, <3>3
    <2>5. StatementEnd(c, n) = e
      <3>1. os \in SUBSET Nat /\ Len(c) + 1 \in Nat /\ e <= Len(c) + 1
        BY <1>1, <2>1
      <3> HIDE DEF os
      <3>2. First(os, Len(c) + 1) = e
        BY <2>3, <2>4, <3>1, FirstUnique
      <3> QED
        BY <3>2, Zenon DEF StatementEnd, os
    <2>6. SubSeq(c, n, e - 1) = SubSeq(a, n, e - 1)
      <3> DEFINE s == SubSeq(c, n, e - 1)
                 r == SubSeq(a, n, e - 1)
      <3>1. /\ n \in Int /\ e - 1 \in Int
            /\ \A i \in n..e - 1 : i \in 1..Len(a) /\ a[i] \in Token /\ c[i] = a[i]
        BY <1>1, <2>1
      <3>2. /\ s \in Seq(Token) /\ Len(s) = IF n <= e - 1 THEN (e - 1) - n + 1 ELSE 0
            /\ \A i \in 1..(e - 1) - n + 1 : s[i] = c[n + i - 1]
        BY <3>1, SubSeqProperties
      <3>3. /\ r \in Seq(Token) /\ Len(r) = IF n <= e - 1 THEN (e - 1) - n + 1 ELSE 0
            /\ \A i \in 1..(e - 1) - n + 1 : r[i] = a[n + i - 1]
        BY <3>1, SubSeqProperties
      <3> HIDE DEF s, r
      <3>4. Len(s) = (e - 1) - n + 1 /\ Len(r) = Len(s)
        BY <2>1, <3>1, <3>2, <3>3
      <3>5. \A i \in 1..Len(s) : n + i - 1 \in n..e - 1
        BY <3>1, <3>4
      <3>6. \A i \in 1..Len(s) : s[i] = r[i]
        BY <3>1, <3>2, <3>3, <3>4, <3>5
      <3>7. s = r
        BY <3>2, <3>3, <3>4, <3>6, SeqEqual
      <3> QED
        BY <3>7 DEF s, r
    <2> QED
      BY <2>1, <2>5, <2>6, Zenon
  <1>4. StatementAt(c, Len(a) + 2) = t
    <2> DEFINE n == Len(a) + 2
               os == {m \in n..Len(c) : IsSemicolon(c[m])}
    <2>1. n \in Starts(c) /\ n \in Nat
      BY <1>1, <1>2
    <2>2. os = {}
      <3>1. ASSUME NEW m \in n..Len(c) PROVE ~IsSemicolon(c[m])
        <4> DEFINE i == m - (Len(a) + 1)
        <4>1. i \in 1..Len(t) /\ Len(a) + 1 + i = m
          BY <1>1
        <4>2. c[m] = t[i]
          BY <1>1, <4>1
        <4> QED
          BY <1>1, <4>1, <4>2 DEF NoSemicolon
      <3> QED
        BY <3>1
    <2>3. StatementEnd(c, n) = Len(c) + 1
      <3>1. /\ os \in SUBSET Nat /\ Len(c) + 1 \in Nat /\ Len(c) + 1 \in os \cup {Len(c) + 1}
            /\ \A m \in os \cup {Len(c) + 1} : Len(c) + 1 <= m
        <4>1. Len(c) + 1 \in Nat
          BY <1>1
        <4> HIDE DEF os
        <4> QED
          BY <2>2, <4>1
      <3> HIDE DEF os
      <3>2. First(os, Len(c) + 1) = Len(c) + 1
        BY <3>1, FirstUnique
      <3> QED
        BY <3>2, Zenon DEF StatementEnd, os
    <2>4. StatementAt(c, n) = SubSeq(c, n, Len(c))
      <3>1. StatementAt(c, n) = SubSeq(c, n, StatementEnd(c, n) - 1)
        BY <1>1, <2>1, StatementAtIs
      <3>2. (Len(c) + 1) - 1 = Len(c)
        BY <1>1
      <3> QED
        BY <2>3, <3>1, <3>2, Zenon
    <2>5. SubSeq(c, n, Len(c)) = t
      <3> DEFINE s == SubSeq(c, n, Len(c))
      <3>1. n \in Int /\ Len(c) \in Int /\ \A i \in n..Len(c) : c[i] \in Token
        BY <1>1
      <3>2. /\ s \in Seq(Token) /\ Len(s) = IF n <= Len(c) THEN Len(c) - n + 1 ELSE 0
            /\ \A i \in 1..Len(c) - n + 1 : s[i] = c[n + i - 1]
        BY <3>1, SubSeqProperties
      <3> HIDE DEF s
      <3>3. Len(s) = Len(t) /\ Len(c) - n + 1 = Len(t)
        BY <1>1, <3>2
      <3>4. \A i \in 1..Len(t) : n + i - 1 = Len(a) + 1 + i
        BY <1>1
      <3>5. \A i \in 1..Len(s) : s[i] = t[i]
        BY <1>1, <3>2, <3>3, <3>4
      <3>6. s = t
        BY <1>1, <3>2, <3>3, <3>5, SeqEqual
      <3> QED
        BY <3>6 DEF s
    <2> QED
      BY <2>4, <2>5
  <1> QED
    BY <1>3, <1>4

\* A statement behind a semicolon is one more statement.
LEMMA PartedJoin ==
    ASSUME NEW a, NEW t, NEW c, Joins(c, a, t), t # <<>>, NoSemicolon(t)
    PROVE  Parted(c) = Append(Parted(a), t)
  <1> DEFINE S == Starts(a)
             L == Len(a)
             k == Cardinality(S)
             R == S \cup {L + 2}
  <1>1. c \in Seq(Token) /\ a \in Seq(Token) /\ t \in Seq(Token) /\ L \in Nat
    BY DEF Joins
  <1>2. S \in SUBSET (1..L) /\ IsFiniteSet(S) /\ k \in Nat
    BY <1>1, StartsType
  <1>3. Starts(c) = R
    BY StartsJoined
  <1> HIDE DEF S
  <1>4. Cardinality(R) = k + 1 /\ L + 2 \notin S
    <2>1. L + 2 \notin S
      BY <1>1, <1>2
    <2> QED
      BY <1>2, <2>1, FS_AddElement
  <1>4a. \A m \in R : m \in 1..L + 2 /\ m <= L + 2 /\ (m \in S \/ m = L + 2)
    <2>1. \A m \in S : m \in 1..L
      BY <1>2
    <2> QED
      BY <1>1, <2>1
  <1>5. ASSUME NEW i \in 1..k PROVE Kth(R, i) = Kth(S, i)
    <2>1. Kth(S, i) \in S /\ Cardinality({m \in S : m <= Kth(S, i)}) = i
      BY <1>1, <1>2, KthIs
    <2>2. ASSUME NEW n \in S PROVE {m \in R : m <= n} = {m \in S : m <= n}
      BY <1>1, <1>2
    <2>3. {m \in R : m <= L + 2} = R
      BY <1>4a, Zenon
    <2>4. ASSUME NEW n
          PROVE  n \in R /\ Cardinality({m \in R : m <= n}) = i
                    <=> n \in S /\ Cardinality({m \in S : m <= n}) = i
      <3>1. CASE n \in S
        BY <2>2, <3>1
      <3>2. CASE n = L + 2
        <4>1. n \notin S
          BY <1>1, <1>2, <3>2
        <4>2. Cardinality({m \in R : m <= n}) # i
          <5>1. k + 1 # i
            BY <1>2
          <5> QED
            BY <1>4, <2>3, <3>2, <5>1
        <4> QED
          BY <4>1, <4>2
      <3> QED
        BY <3>1, <3>2
    <2> HIDE DEF R
    <2> QED
      BY <2>4, Zenon DEF Kth
  <1>6. Kth(R, k + 1) = L + 2
    <2>1. /\ R \in SUBSET (1..L + 2) /\ k + 1 \in 1..Cardinality(R) /\ L + 2 \in Nat
      <3> HIDE DEF R, k, L
      <3> QED
        BY <1>1, <1>2, <1>4, <1>4a
    <2>2. Kth(R, k + 1) \in R /\ Cardinality({m \in R : m <= Kth(R, k + 1)}) = k + 1
      <3> HIDE DEF R
      <3> QED
        BY <2>1, KthIs
    <2>3. ASSUME Kth(R, k + 1) \in S PROVE FALSE
      <3> DEFINE n == Kth(R, k + 1)
                 T == {m \in R : m <= n}
      <3>1. T \in SUBSET S
        <4>1. n \in 1..L
          BY <1>2, <2>3
        <4>2. ~(L + 2 <= n)
          BY <1>1, <4>1
        <4> HIDE DEF R, n
        <4> QED
          BY <1>4a, <4>2
      <3> HIDE DEF T
      <3>2. Cardinality(T) <= k
        BY <1>2, <3>1, FS_Subset
      <3>3. Cardinality(T) = k + 1
        BY <2>2 DEF T
      <3> QED
        BY <1>2, <3>2, <3>3
    <2> QED
      BY <2>2, <2>3
  <1> HIDE DEF R, L
  <1>7. Parted(c) = [i \in 1..k + 1 |-> StatementAt(c, Kth(R, i))]
    BY <1>1, <1>3, <1>4, PartedIs
  <1>8. Parted(a) = [i \in 1..k |-> StatementAt(a, Kth(S, i))]
        /\ Parted(a) \in Seq(Seq(Token)) /\ Len(Parted(a)) = k
        /\ \A i \in 1..k : Kth(S, i) \in S
    BY <1>1, PartedIs DEF S
  <1>9. Parted(c) \in Seq(Seq(Token)) /\ Len(Parted(c)) = k + 1
    BY <1>1, <1>3, <1>4, PartedIs
  <1>10. /\ Append(Parted(a), t) \in Seq(Seq(Token))
         /\ Len(Append(Parted(a), t)) = k + 1
         /\ \A i \in 1..k : Append(Parted(a), t)[i] = Parted(a)[i]
         /\ Append(Parted(a), t)[k + 1] = t
    <2> DEFINE p == Parted(a)
    <2>1. p \in Seq(Seq(Token)) /\ t \in Seq(Token) /\ Len(p) = k
      BY <1>1, <1>8
    <2> HIDE DEF p
    <2>2. /\ Append(p, t) \in Seq(Seq(Token))
          /\ Len(Append(p, t)) = Len(p) + 1
          /\ \A i \in 1..Len(p) : Append(p, t)[i] = p[i]
          /\ Append(p, t)[Len(p) + 1] = t
      BY <2>1, AppendProperties
    <2> QED
      BY <2>1, <2>2 DEF p
  <1>11. ASSUME NEW i \in 1..k + 1 PROVE Parted(c)[i] = Append(Parted(a), t)[i]
    <2>1. CASE i = k + 1
      <3>1. Parted(c)[k + 1] = StatementAt(c, L + 2)
        BY <1>6, <1>7, <2>1
      <3>2. StatementAt(c, L + 2) = t
        BY StatementsJoined DEF L
      <3> QED
        BY <1>10, <2>1, <3>1, <3>2
    <2>2. CASE i # k + 1
      <3>1. i \in 1..k
        BY <1>2, <2>2
      <3>2. Parted(c)[i] = StatementAt(c, Kth(S, i))
        BY <1>5, <1>7, <3>1
      <3>3. StatementAt(c, Kth(S, i)) = StatementAt(a, Kth(S, i))
        BY <1>8, <3>1, StatementsJoined DEF S
      <3> QED
        BY <1>8, <1>10, <3>1, <3>2, <3>3
    <2> QED
      BY <2>1, <2>2
  <1>12. \A i \in 1..Len(Parted(c)) : Parted(c)[i] = Append(Parted(a), t)[i]
    BY <1>9, <1>11
  <1> QED
    BY <1>9, <1>10, <1>12, SeqEqual

-----------------------------------------------------------------------------
(* The text of a script, statement by statement *)

\* The recursion of FlattenSeq.
FlatStep(f, ss, n) == IF n = 1 THEN ss[n] ELSE f[n - 1] \o ss[n]
FlatUpto(f, ss, k) == f = [n \in 1..k |-> FlatStep(f, ss, n)]
Flat(ss) == CHOOSE f : FlatUpto(f, ss, Len(ss))

LEMMA FlatExist ==
    ASSUME NEW ss
    PROVE  \A k \in Nat : \E f : FlatUpto(f, ss, k)
  <1> DEFINE S == {k \in Nat : \E f : FlatUpto(f, ss, k)}
  <1>1. 0 \in S
    <2> DEFINE f == [n \in 1..0 |-> FlatStep(<<>>, ss, n)]
    <2>1. \A n : n \notin 1..0
      OBVIOUS
    <2>2. f = [n \in 1..0 |-> FlatStep(f, ss, n)]
      <3> DEFINE g == [n \in 1..0 |-> FlatStep(f, ss, n)]
      <3>1. DOMAIN f = DOMAIN g /\ \A n \in 1..0 : f[n] = g[n]
        BY <2>1
      <3> QED
        BY <2>1
    <2>3. FlatUpto(f, ss, 0)
      BY <2>2 DEF FlatUpto
    <2> QED
      BY <2>3
  <1>2. ASSUME NEW k \in Nat, k \in S PROVE k + 1 \in S
    <2>1. PICK f : FlatUpto(f, ss, k)
      BY <1>2
    <2> DEFINE g == [n \in 1..k + 1 |-> FlatStep(f, ss, n)]
    <2>2. \A n \in 1..k : n \in 1..k + 1 /\ g[n] = f[n]
      BY <2>1 DEF FlatUpto
    <2>3. \A n \in 1..k + 1 : n # 1 => n - 1 \in 1..k
      OBVIOUS
    <2>4. \A n \in 1..k + 1 : FlatStep(g, ss, n) = FlatStep(f, ss, n)
      <3> HIDE DEF g
      <3> QED
        BY <2>2, <2>3, Zenon DEF FlatStep
    <2>5. FlatUpto(g, ss, k + 1)
      BY <2>4 DEF FlatUpto
    <2> QED
      BY <2>5
  <1> HIDE DEF S
  <1>3. \A k \in Nat : k \in S
    BY <1>1, <1>2, Upwards
  <1> QED
    BY <1>3 DEF S

LEMMA FlattenIs ==
    ASSUME NEW S, NEW ss \in Seq(S), Len(ss) # 0
    PROVE  /\ FlattenSeq(ss) = Flat(ss)[Len(ss)]
           /\ Flat(ss)[1] = ss[1]
           /\ \A n \in 2..Len(ss) : Flat(ss)[n] = Flat(ss)[n - 1] \o ss[n]
  <1>1. Len(ss) \in Nat /\ Len(ss) >= 1
    OBVIOUS
  <1>2. FlatUpto(Flat(ss), ss, Len(ss))
    BY <1>1, FlatExist DEF Flat
  <1>3. \A n \in 1..Len(ss) : Flat(ss)[n] = FlatStep(Flat(ss), ss, n)
    BY <1>2 DEF FlatUpto
  <1>4. FlattenSeq(ss) = Flat(ss)[Len(ss)]
    <2> DEFINE f == CHOOSE f : f = [i \in 1..Len(ss) |->
                      IF i = 1 THEN ss[i] ELSE f[i - 1] \o ss[i]]
    <2>1. f = Flat(ss)
      BY DEF Flat, FlatUpto, FlatStep
    <2>2. FlattenSeq(ss) = f[Len(ss)]
      BY Zenon DEF FlattenSeq
    <2> HIDE DEF f
    <2> QED
      BY <2>1, <2>2
  <1>5. Flat(ss)[1] = ss[1]
    <2>1. 1 \in 1..Len(ss)
      BY <1>1
    <2> QED
      BY <1>3, <2>1, Zenon DEF FlatStep
  <1>6. ASSUME NEW n \in 2..Len(ss) PROVE Flat(ss)[n] = Flat(ss)[n - 1] \o ss[n]
    <2>1. n \in 1..Len(ss) /\ n # 1
      BY <1>1
    <2> QED
      BY <1>3, <2>1, Zenon DEF FlatStep
  <1> QED
    BY <1>4, <1>5, <1>6, Zenon

\* ts are the tokens of the first, the first two, .. of the statements ws.
Accumulates(ts, ws) ==
    /\ ts[1] = ws[1]
    /\ \A n \in 2..Len(ws) : Joins(ts[n], ts[n - 1], ws[n])

AreStatements(ws) ==
    /\ ws \in Seq(Seq(Token)) /\ ws # <<>>
    /\ \A n \in 1..Len(ws) : ws[n] # <<>> /\ NoSemicolon(ws[n])

LEMMA PartedAll ==
    ASSUME NEW ws, AreStatements(ws), NEW ts, Accumulates(ts, ws)
    PROVE  Parted(ts[Len(ws)]) = ws
  <1> DEFINE Good(n) == n + 1 <= Len(ws) => Parted(ts[n + 1]) = SubSeq(ws, 1, n + 1)
             S == {n \in Nat : Good(n)}
  <1>1. Len(ws) \in Nat /\ Len(ws) >= 1 /\ ws \in Seq(Seq(Token))
    BY DEF AreStatements
  <1>2. Good(0)
    <2>1. /\ 0 + 1 = 1 /\ 1 \in 1..Len(ws) /\ ws[1] \in Seq(Token)
          /\ ts[1] = ws[1] /\ ws[1] # <<>> /\ NoSemicolon(ws[1])
      BY <1>1 DEF AreStatements, Accumulates
    <2>2. Parted(ws[1]) = <<ws[1]>>
      BY <2>1, PartedOne
    <2>3. SubSeq(ws, 1, 1) = <<ws[1]>>
      <3> DEFINE q == Seq(Token)
                 s == SubSeq(ws, 1, 1)
                 r == <<ws[1]>>
      <3>1. ws[1] \in q /\ \A i \in 1..1 : ws[i] \in q
        BY <2>1
      <3> HIDE DEF q
      <3>2. /\ s \in Seq(q) /\ Len(s) = 1
            /\ \A i \in 1..1 - 1 + 1 : s[i] = ws[1 + i - 1]
        BY <3>1, SubSeqProperties
      <3>3. r \in Seq(q) /\ Len(r) = 1 /\ r[1] = ws[1]
        BY <3>1
      <3> HIDE DEF s, r
      <3>4. \A i \in 1..Len(s) : s[i] = r[i]
        BY <3>2, <3>3
      <3>5. s = r
        BY <3>2, <3>3, <3>4, SeqEqual
      <3> QED
        BY <3>5 DEF s, r
    <2> QED
      BY <2>1, <2>2, <2>3
  <1>3. ASSUME NEW n \in Nat, Good(n) PROVE Good(n + 1)
    <2> DEFINE m == n + 1
    <2>1. SUFFICES ASSUME m + 1 <= Len(ws) PROVE Parted(ts[m + 1]) = SubSeq(ws, 1, m + 1)
      OBVIOUS
    <2>2. /\ m \in 1..Len(ws) /\ m + 1 \in 2..Len(ws) /\ m + 1 \in 1..Len(ws)
          /\ (m + 1) - 1 = m /\ m <= Len(ws)
      BY <1>1, <2>1
    <2>3. Parted(ts[m]) = SubSeq(ws, 1, m)
      BY <1>3, <2>2
    <2>4. Joins(ts[m + 1], ts[m], ws[m + 1]) /\ ws[m + 1] # <<>> /\ NoSemicolon(ws[m + 1])
      BY <2>2 DEF Accumulates, AreStatements
    <2> HIDE DEF m
    <2>5. Parted(ts[m + 1]) = Append(SubSeq(ws, 1, m), ws[m + 1])
      BY <2>3, <2>4, PartedJoin
    <2>6. Append(SubSeq(ws, 1, m), ws[m + 1]) = SubSeq(ws, 1, m + 1)
      <3> DEFINE q == Seq(Token)
      <3>1. ws \in Seq(q) /\ 1 \in 1..Len(ws) /\ m + 1 \in 1..Len(ws) /\ ws[m + 1] \in q
            /\ SubSeq(ws, 1, m) \in Seq(q)
        BY <1>1, <2>2
      <3> HIDE DEF q
      <3>2. SubSeq(ws, 1, m + 1) = SubSeq(ws, 1, (m + 1) - 1) \o <<ws[m + 1]>>
        BY <3>1, SubSeqRecursiveSecond
      <3>3. Append(SubSeq(ws, 1, m), ws[m + 1]) = SubSeq(ws, 1, m) \o <<ws[m + 1]>>
        BY <3>1, AppendIsConcat
      <3> QED
        BY <2>2, <3>2, <3>3, Zenon
    <2> QED
      BY <2>5, <2>6, Zenon
  <1> HIDE DEF Good
  <1>4. 0 \in S /\ \A n \in Nat : n \in S => n + 1 \in S
    BY <1>2, <1>3
  <1> HIDE DEF S
  <1>5. Len(ws) - 1 \in S
    <2>1. Len(ws) - 1 \in Nat
      BY <1>1
    <2> QED
      BY <1>4, <2>1, Upwards
  <1>6. (Len(ws) - 1) + 1 = Len(ws) /\ Len(ws) <= Len(ws)
    BY <1>1
  <1>7. SubSeq(ws, 1, Len(ws)) = ws
    BY <1>1, SubSeqFull
  <1> QED
    BY <1>5, <1>6, <1>7, Zenon DEF S, Good

Insert == TokenOf([form |-> "word", text |-> "insert"])

LEMMA InsertIs == Insert.kind = "identifier" /\ Insert.text = "insert"
  BY Zenon DEF Insert, TokenOf

LEMMA TokenizeNone == Tokenize(<<>>) = <<>>
  <1> DEFINE e == <<>>
  <1>1. e \in Seq(Letter) /\ Len(e) = 0
    OBVIOUS
  <1> HIDE DEF e
  <1>2. Tokenize(e) = TokensOf(e)[Len(e)] /\ TokensOf(e)[0] = <<>>
    BY <1>1, TokensAre
  <1> QED
    BY <1>1, <1>2, Zenon DEF e

\* w is m with h behind its first token.
Hinted(w, m, h) ==
    /\ w \in Seq(Token) /\ m \in Seq(Token) /\ h \in Seq(Token) /\ m # <<>>
    /\ Len(w) = Len(m) + Len(h)
    /\ w[1] = m[1]
    /\ \A i \in 1..Len(h) : w[1 + i] = h[i]
    /\ \A i \in 2..Len(m) : w[Len(h) + i] = m[i]

LEMMA HintedIs ==
    ASSUME NEW o \in Token, NEW h \in Seq(Token), NEW t \in Seq(Token)
    PROVE  Hinted((<<o>> \o h) \o t, <<o>> \o t, h)
  <1> DEFINE s == <<o>>
             p == s \o h
             w == p \o t
             m == s \o t
  <1>1. s \in Seq(Token) /\ Len(s) = 1 /\ s[1] = o /\ Len(h) \in Nat /\ Len(t) \in Nat
    OBVIOUS
  <1> HIDE DEF s
  <1>2. /\ p \in Seq(Token) /\ Len(p) = Len(s) + Len(h)
        /\ \A i \in 1..Len(s) + Len(h) : p[i] = IF i <= Len(s) THEN s[i] ELSE h[i - Len(s)]
    BY <1>1, ConcatProperties
  <1>3. /\ m \in Seq(Token) /\ Len(m) = Len(s) + Len(t)
        /\ \A i \in 1..Len(s) + Len(t) : m[i] = IF i <= Len(s) THEN s[i] ELSE t[i - Len(s)]
    BY <1>1, ConcatProperties
  <1> HIDE DEF p, m
  <1>4. /\ w \in Seq(Token) /\ Len(w) = Len(p) + Len(t)
        /\ \A i \in 1..Len(p) + Len(t) : w[i] = IF i <= Len(p) THEN p[i] ELSE t[i - Len(p)]
    <2>1. p \in Seq(Token) /\ t \in Seq(Token)
      BY <1>2
    <2> QED
      BY ONLY <2>1, ConcatProperties
  <1> HIDE DEF w
  <1>5. p[1] = o /\ m[1] = o /\ w[1] = o
    <2>1. /\ 1 <= Len(s) /\ 1 <= Len(p)
          /\ 1 \in 1..Len(s) + Len(h) /\ 1 \in 1..Len(s) + Len(t) /\ 1 \in 1..Len(p) + Len(t)
      <3>1. /\ Len(s) = 1 /\ Len(h) \in Nat /\ Len(t) \in Nat /\ Len(p) = Len(s) + Len(h)
        BY <1>1, <1>2
      <3> QED
        BY ONLY <3>1
    <2>2. p[1] = s[1] /\ m[1] = s[1]
      BY <1>2, <1>3, <2>1, Zenon
    <2>3. w[1] = p[1]
      BY <1>4, <2>1, Zenon
    <2> QED
      BY <1>1, <2>2, <2>3, Zenon
  <1>6. ASSUME NEW i \in 1..Len(h) PROVE w[1 + i] = h[i]
    <2>1. /\ 1 + i \in 1..Len(s) + Len(h) /\ 1 + i \in 1..Len(p) + Len(t)
          /\ 1 + i <= Len(p) /\ ~(1 + i <= Len(s)) /\ (1 + i) - Len(s) = i
      BY <1>1, <1>2
    <2>2. w[1 + i] = p[1 + i]
      BY <1>4, <2>1
    <2>3. p[1 + i] = h[i]
      BY <1>2, <2>1
    <2> QED
      BY <2>2, <2>3
  <1>7. ASSUME NEW i \in 2..Len(m) PROVE w[Len(h) + i] = m[i]
    <2>1. /\ i \in 1..Len(s) + Len(t) /\ ~(i <= Len(s)) /\ i - Len(s) = i - 1
          /\ Len(h) + i \in 1..Len(p) + Len(t) /\ ~(Len(h) + i <= Len(p))
          /\ (Len(h) + i) - Len(p) = i - 1
      BY <1>1, <1>2, <1>3
    <2>2. w[Len(h) + i] = t[i - 1]
      BY <1>4, <2>1
    <2>3. m[i] = t[i - 1]
      BY <1>3, <2>1
    <2> QED
      BY <2>2, <2>3
  <1>8. Len(w) = Len(m) + Len(h) /\ Len(m) >= 1
    BY <1>1, <1>2, <1>3, <1>4
  <1>9. m # <<>>
    BY <1>3, <1>8
  <1>10. Hinted(w, m, h)
    BY <1>3, <1>4, <1>5, <1>6, <1>7, <1>8, <1>9 DEF Hinted
  <1> QED
    BY <1>10 DEF w, m, p, s

LEMMA StatementIs ==
    ASSUME NEW s, IsStatement(s)
    PROVE  /\ s.meant \in Seq(Letter) /\ s.hint \in Seq(Letter) /\ Written(s) \in Seq(Letter)
           /\ Tokenize(s.meant) \in Seq(Token) /\ Tokenize(s.hint) \in Seq(Token)
           /\ Tokenize(s.meant) # <<>> /\ NoSemicolon(Tokenize(s.meant))
           /\ s.hint = <<>> => Tokenize(Written(s)) = Tokenize(s.meant)
           /\ s.hint # <<>> =>
                 /\ Tokenize(s.meant)[1] = Insert /\ IsHint(Tokenize(s.hint))
                 /\ Hinted(Tokenize(Written(s)), Tokenize(s.meant), Tokenize(s.hint))
  <1> DEFINE m == s.meant
             h == s.hint
  <1>1. m \in Seq(Lexeme) /\ h \in Seq(Lexeme)
    BY Zenon DEF IsStatement, StatementType
  <1>2. m \in Seq(Letter) /\ h \in Seq(Letter)
    <2>1. Lexeme \subseteq Letter
      BY Zenon DEF Letter
    <2> HIDE DEF m, h
    <2> QED
      BY <1>1, <2>1, SeqMonotonic
  <1>3. /\ Tokenize(m) # <<>> /\ NoSemicolon(Tokenize(m))
        /\ h # <<>> => m[1] = [form |-> "word", text |-> "insert"] /\ IsHint(Tokenize(h))
        /\ Written(s) = IF h = <<>> THEN m ELSE (<<m[1]>> \o h) \o Tail(m)
    BY Zenon DEF IsStatement, Written
  <1> HIDE DEF m, h
  <1>4. Tokenize(m) \in Seq(Token) /\ Tokenize(h) \in Seq(Token)
    BY <1>2, TokensType
  <1>5. ASSUME h # <<>>
        PROVE  /\ Written(s) \in Seq(Letter)
               /\ Tokenize(m)[1] = Insert
               /\ Hinted(Tokenize(Written(s)), Tokenize(m), Tokenize(h))
    <2> DEFINE o == m[1]
               t == Tail(m)
               a == <<o>>
    <2>1. m # <<>>
      BY <1>3, TokenizeNone
    <2>2. o \in Letter /\ t \in Seq(Letter) /\ a \in Seq(Letter) /\ m = a \o t
      BY <1>2, <2>1
    <2>3. o.form # "comment" /\ TokenOf(o) = Insert
      <3>1. o = [form |-> "word", text |-> "insert"]
        BY <1>3, <1>5, Zenon
      <3> HIDE DEF o
      <3>2. o.form = "word" /\ "word" # "comment"
        BY <3>1, Zenon
      <3> QED
        BY <3>1, <3>2, Zenon DEF Insert
    <2> HIDE DEF o, t
    <2>4. Tokenize(a) = <<TokenOf(o)>>
      BY <2>2, <2>3, TokenizeOne
    <2>5. Written(s) = (a \o h) \o t
      BY <1>3, <1>5, Zenon DEF o, t
    <2> HIDE DEF a
    <2>6. a \o h \in Seq(Letter)
      BY <1>2, <2>2, ConcatProperties
    <2>7. Written(s) \in Seq(Letter)
      <3> DEFINE b == a \o h
      <3>1. b \in Seq(Letter)
        BY <2>6
      <3> HIDE DEF b
      <3>2. b \o t \in Seq(Letter)
        BY <2>2, <3>1, ConcatProperties
      <3> QED
        BY <2>5, <3>2, Zenon DEF b
    <2>8. Tokenize(m) = Tokenize(a) \o Tokenize(t)
      BY <2>2, TokenizeJoin
    <2>9. Tokenize((a \o h) \o t) = Tokenize(a \o h) \o Tokenize(t)
      <3> DEFINE b == a \o h
      <3>1. b \in Seq(Letter)
        BY <2>6
      <3> HIDE DEF b
      <3>2. Tokenize(b \o t) = Tokenize(b) \o Tokenize(t)
        BY <2>2, <3>1, TokenizeJoin
      <3> QED
        BY <3>2, Zenon DEF b
    <2>10. Tokenize(a \o h) = Tokenize(a) \o Tokenize(h)
      BY <1>2, <2>2, TokenizeJoin
    <2>11. /\ TokenOf(o) \in Token /\ Tokenize(t) \in Seq(Token)
      BY <2>2, TokenType, TokensType
    <2>12. Hinted((<<TokenOf(o)>> \o Tokenize(h)) \o Tokenize(t), <<TokenOf(o)>> \o Tokenize(t),
                  Tokenize(h))
      <3> DEFINE x == TokenOf(o)
                 y == Tokenize(h)
                 z == Tokenize(t)
      <3>1. x \in Token /\ y \in Seq(Token) /\ z \in Seq(Token)
        BY <1>4, <2>11
      <3> HIDE DEF x, y, z
      <3>2. Hinted((<<x>> \o y) \o z, <<x>> \o z, y)
        BY <3>1, HintedIs
      <3> QED
        BY <3>2, Zenon DEF x, y, z
    <2>13. Hinted(Tokenize(Written(s)), Tokenize(m), Tokenize(h))
      BY <2>4, <2>5, <2>8, <2>9, <2>10, <2>12, Zenon
    <2>14. Tokenize(m)[1] = Insert
      <3> DEFINE z == Tokenize(t)
      <3>1. <<Insert>> \in Seq(Token) /\ z \in Seq(Token) /\ Len(<<Insert>>) = 1 /\ Len(z) \in Nat
        BY <2>3, <2>11
      <3>2. Tokenize(m) = <<Insert>> \o z
        BY <2>3, <2>4, <2>8, Zenon
      <3> HIDE DEF z
      <3>3. (<<Insert>> \o z)[1] = <<Insert>>[1]
        BY <3>1
      <3>4. <<Insert>>[1] = Insert
        OBVIOUS
      <3> QED
        BY <3>2, <3>3, <3>4, Zenon
    <2> QED
      BY <2>7, <2>13, <2>14
  <1>6. h = <<>> => Written(s) = m
    BY <1>3
  <1>7. Written(s) \in Seq(Letter)
    BY <1>2, <1>5, <1>6
  <1> QED
    BY <1>2, <1>3, <1>4, <1>5, <1>6, <1>7, Zenon DEF m, h

IsScript(s) == s \in Seq(StatementType) /\ \A n \in DOMAIN s : IsStatement(s[n])

\* The tokens of the statements, as they are written and as they are meant
AsWritten(s) == [n \in 1..Len(s) |-> Tokenize(Written(s[n]))]
AsMeant(s) == [n \in 1..Len(s) |-> Tokenize(s[n].meant)]

LEMMA ScriptText ==
    ASSUME NEW s, IsScript(s), Len(s) # 0
    PROVE  \E ts : /\ Accumulates(ts, AsWritten(s))
                   /\ \A n \in 1..Len(s) : ts[n] \in Seq(Token)
                   /\ ts[Len(s)] = Tokenize(TextOf(s))
  <1> DEFINE q == Seq(Letter)
             ws == [n \in DOMAIN s |-> IF n = 1 THEN Written(s[n])
                                       ELSE <<Semicolon>> \o Written(s[n])]
             f == Flat(ws)
             ts == [n \in 1..Len(s) |-> Tokenize(f[n])]
  <1>1. /\ Len(s) \in Nat /\ Len(s) >= 1 /\ DOMAIN s = 1..Len(s)
    BY DEF IsScript
  <1>2. \A n \in 1..Len(s) : Written(s[n]) \in q
    BY <1>1, StatementIs DEF IsScript
  <1>3. Semicolon \in Letter /\ <<Semicolon>> \in q /\ Tokenize(<<Semicolon>>) = <<Semi>>
    <2>1. Semicolon \in Letter /\ Semicolon.form # "comment"
      <3>1. Semicolon.form = "sign"
        BY Zenon DEF Semicolon
      <3>2. Semicolon.form # "comment"
        BY <3>1, Zenon
      <3> QED
        BY <3>2, Zenon DEF Letter
    <2>2. Tokenize(<<Semicolon>>) = <<Semi>>
      BY <2>1, TokenizeOne DEF Semi
    <2> QED
      BY <2>1, <2>2
  <1> HIDE DEF q
  <1>4. \A n \in 1..Len(s) : <<Semicolon>> \o Written(s[n]) \in q
    BY <1>2, <1>3, ConcatProperties DEF q
  <1>5. \A n \in 1..Len(s) : ws[n] \in q
    BY <1>1, <1>2, <1>4
  <1>6. /\ ws \in Seq(q) /\ Len(ws) = Len(s)
        /\ ws[1] = Written(s[1])
        /\ \A n \in 2..Len(s) : ws[n] = <<Semicolon>> \o Written(s[n])
    <2>1. DOMAIN ws = 1..Len(s)
      BY <1>1
    <2>2. ws[1] = Written(s[1])
      BY <1>1
    <2>3. \A n \in 2..Len(s) : ws[n] = <<Semicolon>> \o Written(s[n])
      BY <1>1
    <2> HIDE DEF ws
    <2>4. ws = [n \in 1..Len(s) |-> ws[n]]
      BY <1>1, Zenon DEF ws
    <2>5. ws \in Seq(q) /\ Len(ws) = Len(s)
      <3> DEFINE g == [n \in 1..Len(s) |-> ws[n]]
      <3>1. g \in Seq(q) /\ Len(g) = Len(s)
        BY <1>1, <1>5
      <3> QED
        BY <2>4, <3>1, Zenon
    <2> QED
      BY <2>2, <2>3, <2>5
  <1>7. TextOf(s) = FlattenSeq(ws)
    BY Zenon DEF TextOf
  <1> HIDE DEF ws
  <1>8. /\ FlattenSeq(ws) = f[Len(s)] /\ f[1] = ws[1]
        /\ \A n \in 2..Len(s) : f[n] = f[n - 1] \o ws[n]
    BY <1>1, <1>6, FlattenIs
  <1> HIDE DEF f
  <1>9. \A n \in 1..Len(s) : f[n] \in q
    <2> DEFINE Good(n) == n + 1 <= Len(s) => f[n + 1] \in q
               S == {n \in Nat : Good(n)}
    <2>1. Good(0)
      BY <1>1, <1>2, <1>6, <1>8
    <2>2. ASSUME NEW n \in Nat, Good(n) PROVE Good(n + 1)
      <3> DEFINE m == n + 1
      <3>1. SUFFICES ASSUME m + 1 <= Len(s) PROVE f[m + 1] \in q
        OBVIOUS
      <3>2. /\ m <= Len(s) /\ m + 1 \in 2..Len(s) /\ m + 1 \in 1..Len(s) /\ (m + 1) - 1 = m
        BY <1>1, <3>1
      <3>3. f[m] \in q
        BY <2>2, <3>2
      <3> HIDE DEF m
      <3>4. f[m + 1] = f[m] \o ws[m + 1] /\ ws[m + 1] \in q
        BY <1>5, <1>8, <3>2
      <3>5. f[m] \o ws[m + 1] \in q
        <4> DEFINE x == f[m]
                   y == ws[m + 1]
        <4>1. x \in Seq(Letter) /\ y \in Seq(Letter)
          BY <3>3, <3>4 DEF q
        <4> HIDE DEF x, y
        <4>2. x \o y \in Seq(Letter)
          BY <4>1, ConcatProperties
        <4> QED
          BY <4>2, Zenon DEF x, y, q
      <3> QED
        BY <3>4, <3>5, Zenon
    <2> HIDE DEF Good
    <2>3. 0 \in S /\ \A n \in Nat : n \in S => n + 1 \in S
      BY <2>1, <2>2
    <2> HIDE DEF S
    <2>4. \A n \in Nat : n \in S
      BY <2>3, Upwards
    <2>5. ASSUME NEW n \in 1..Len(s) PROVE f[n] \in q
      <3>1. n - 1 \in Nat /\ (n - 1) + 1 = n /\ n <= Len(s)
        BY <1>1
      <3>2. Good(n - 1)
        BY <2>4, <3>1 DEF S
      <3> QED
        BY <3>1, <3>2 DEF Good
    <2> QED
      BY <2>5
  <1>10. \A n \in 1..Len(s) : ts[n] \in Seq(Token)
    BY <1>9, TokensType DEF q
  <1>11. \A n \in 1..Len(s) : Tokenize(Written(s[n])) \in Seq(Token)
    BY <1>2, TokensType DEF q
  <1>12. ts[1] = Tokenize(Written(s[1])) /\ ts[Len(s)] = Tokenize(TextOf(s))
    <2>1. 1 \in 1..Len(s) /\ Len(s) \in 1..Len(s)
      BY <1>1
    <2> QED
      BY <1>6, <1>7, <1>8, <2>1
  <1>13. ASSUME NEW n \in 2..Len(s) PROVE Joins(ts[n], ts[n - 1], Tokenize(Written(s[n])))
    <2> DEFINE x == f[n - 1]
               y == Written(s[n])
               z == <<Semicolon>>
    <2>1. n \in 1..Len(s) /\ n - 1 \in 1..Len(s)
      BY <1>1
    <2>2. x \in Seq(Letter) /\ y \in Seq(Letter) /\ z \in Seq(Letter)
      BY <1>2, <1>3, <1>9, <2>1 DEF q
    <2>3. f[n] = x \o (z \o y)
      BY <1>6, <1>8, Zenon
    <2> HIDE DEF x, y, z
    <2>4. Tokenize(x \o (z \o y)) = Tokenize(x) \o Tokenize(z \o y)
      <3> DEFINE v == z \o y
      <3>1. v \in Seq(Letter)
        BY <2>2, ConcatProperties
      <3> HIDE DEF v
      <3>2. Tokenize(x \o v) = Tokenize(x) \o Tokenize(v)
        BY <2>2, <3>1, TokenizeJoin
      <3> QED
        BY <3>2, Zenon DEF v
    <2>5. Tokenize(z \o y) = Tokenize(z) \o Tokenize(y)
      BY <2>2, TokenizeJoin
    <2>6. Tokenize(z) = <<Semi>>
      BY <1>3 DEF z
    <2>7. Tokenize(x) \in Seq(Token) /\ Tokenize(y) \in Seq(Token)
      BY <2>2, TokensType
    <2>8. Joins(Tokenize(x) \o (<<Semi>> \o Tokenize(y)), Tokenize(x), Tokenize(y))
      <3> DEFINE u == Tokenize(x)
                 v == Tokenize(y)
      <3>1. u \in Seq(Token) /\ v \in Seq(Token)
        BY <2>7
      <3> HIDE DEF u, v
      <3>2. Joins(u \o (<<Semi>> \o v), u, v)
        BY <3>1, JoinsIs
      <3> QED
        BY <3>2, Zenon DEF u, v
    <2>9. ts[n] = Tokenize(f[n]) /\ ts[n - 1] = Tokenize(x)
      BY <2>1 DEF x
    <2> HIDE DEF ts
    <2>10. ts[n] = Tokenize(x) \o (<<Semi>> \o Tokenize(y))
      BY <2>3, <2>4, <2>5, <2>6, <2>9, Zenon
    <2> QED
      BY <2>8, <2>9, <2>10, Zenon DEF y
  <1> HIDE DEF ts
  <1>14. /\ Len(AsWritten(s)) = Len(s)
         /\ \A n \in 1..Len(s) : AsWritten(s)[n] = Tokenize(Written(s[n]))
    BY <1>1, <1>11 DEF AsWritten
  <1>15. Accumulates(ts, AsWritten(s))
    <2>1. 1 \in 1..Len(s) /\ \A n \in 2..Len(s) : n \in 1..Len(s)
      BY <1>1
    <2> QED
      BY <1>12, <1>13, <1>14, <2>1 DEF Accumulates
  <1> QED
    BY <1>10, <1>12, <1>15

LEMMA HintedClean ==
    ASSUME NEW w, NEW m, NEW h, Hinted(w, m, h), NoSemicolon(m), NoSemicolon(h)
    PROVE  w # <<>> /\ NoSemicolon(w)
  <1>1. /\ w \in Seq(Token) /\ m \in Seq(Token) /\ h \in Seq(Token) /\ m # <<>>
        /\ Len(w) = Len(m) + Len(h) /\ Len(m) \in Nat /\ Len(h) \in Nat /\ Len(m) >= 1
        /\ w[1] = m[1]
        /\ \A i \in 1..Len(h) : w[1 + i] = h[i]
        /\ \A i \in 2..Len(m) : w[Len(h) + i] = m[i]
        /\ DOMAIN w = 1..Len(w) /\ DOMAIN m = 1..Len(m) /\ DOMAIN h = 1..Len(h)
    BY DEF Hinted
  <1>2. ASSUME NEW n \in 1..Len(w) PROVE ~IsSemicolon(w[n])
    <2>1. CASE n = 1
      BY <1>1, <2>1 DEF NoSemicolon
    <2>2. CASE n # 1 /\ n <= Len(h) + 1
      <3>1. n - 1 \in 1..Len(h) /\ 1 + (n - 1) = n
        BY <1>1, <2>2
      <3>2. w[n] = h[n - 1]
        BY <1>1, <3>1
      <3> QED
        BY <1>1, <3>1, <3>2 DEF NoSemicolon
    <2>3. CASE n > Len(h) + 1
      <3>1. n - Len(h) \in 2..Len(m) /\ Len(h) + (n - Len(h)) = n /\ n - Len(h) \in 1..Len(m)
        BY <1>1, <2>3
      <3>2. w[n] = m[n - Len(h)]
        BY <1>1, <3>1
      <3> QED
        BY <1>1, <3>1, <3>2 DEF NoSemicolon
    <2> QED
      BY <1>1, <2>1, <2>2, <2>3
  <1>3. w # <<>>
    BY <1>1
  <1> QED
    BY <1>1, <1>2, <1>3 DEF NoSemicolon

LEMMA ScriptStatements ==
    ASSUME NEW s, IsScript(s), Len(s) # 0
    PROVE  /\ AreStatements(AsMeant(s)) /\ Len(AsMeant(s)) = Len(s)
           /\ AreStatements(AsWritten(s)) /\ Len(AsWritten(s)) = Len(s)
  <1>1. /\ Len(s) \in Nat /\ Len(s) >= 1
        /\ \A n \in 1..Len(s) : IsStatement(s[n])
    BY DEF IsScript
  <1>2. ASSUME NEW n \in 1..Len(s)
        PROVE  /\ AsMeant(s)[n] \in Seq(Token) /\ AsWritten(s)[n] \in Seq(Token)
               /\ AsMeant(s)[n] # <<>> /\ NoSemicolon(AsMeant(s)[n])
               /\ AsWritten(s)[n] # <<>> /\ NoSemicolon(AsWritten(s)[n])
    <2> DEFINE w == Tokenize(Written(s[n]))
               m == Tokenize(s[n].meant)
               h == Tokenize(s[n].hint)
    <2>1. /\ Written(s[n]) \in Seq(Letter)
          /\ m \in Seq(Token) /\ m # <<>> /\ NoSemicolon(m)
          /\ s[n].hint = <<>> => w = m
          /\ s[n].hint # <<>> => IsHint(h) /\ Hinted(w, m, h)
      BY <1>1, StatementIs
    <2>2. w \in Seq(Token)
      BY <2>1, TokensType
    <2>3. s[n].hint # <<>> => w # <<>> /\ NoSemicolon(w)
      <3> HIDE DEF w, m, h
      <3> QED
        BY <2>1, HintedClean DEF IsHint
    <2>4. AsMeant(s)[n] = m /\ AsWritten(s)[n] = w
      BY DEF AsMeant, AsWritten
    <2> HIDE DEF w, m, h
    <2> QED
      BY <2>1, <2>2, <2>3, <2>4
  <1>3. /\ AsMeant(s) \in Seq(Seq(Token)) /\ Len(AsMeant(s)) = Len(s)
        /\ AsWritten(s) \in Seq(Seq(Token)) /\ Len(AsWritten(s)) = Len(s)
    <2>1. /\ \A n \in 1..Len(s) : Tokenize(s[n].meant) \in Seq(Token)
          /\ \A n \in 1..Len(s) : Tokenize(Written(s[n])) \in Seq(Token)
      BY <1>2 DEF AsMeant, AsWritten
    <2> QED
      BY <1>1, <2>1 DEF AsMeant, AsWritten
  <1>4. AsMeant(s) # <<>> /\ AsWritten(s) # <<>>
    BY <1>1, <1>3
  <1> QED
    BY <1>2, <1>3, <1>4 DEF AreStatements

-----------------------------------------------------------------------------
(* The calls in a text: of a script without calls, they begin with a hint. *)

LEMMA CallsType ==
    ASSUME NEW a \in Seq(Token)
    PROVE  Calls(a) \in SUBSET (1..Len(a)) /\ Calls(a) \in SUBSET Nat
  <1>1. DOMAIN a = 1..Len(a) /\ Len(a) \in Nat
    OBVIOUS
  <1>2. Calls(a) \in SUBSET (1..Len(a))
    BY <1>1, Zenon DEF Calls
  <1> QED
    BY <1>2

LEMMA CallsJoined ==
    ASSUME NEW a, NEW t, NEW c, Joins(c, a, t)
    PROVE  /\ \A n \in 1..Len(a) : n \in Calls(c) <=> n \in Calls(a)
           /\ Len(a) + 1 \notin Calls(c)
           /\ \A n \in 1..Len(t) : Len(a) + 1 + n \in Calls(c) <=> n \in Calls(t)
  <1>1. /\ Len(a) \in Nat /\ Len(t) \in Nat
        /\ DOMAIN a = 1..Len(a) /\ DOMAIN t = 1..Len(t) /\ DOMAIN c = 1..Len(c)
        /\ Len(c) = Len(a) + 1 + Len(t)
        /\ \A n \in 1..Len(a) : c[n] = a[n]
        /\ c[Len(a) + 1] = Semi
        /\ \A n \in 1..Len(t) : c[Len(a) + 1 + n] = t[n]
    BY DEF Joins
  <1>2. Semi.kind # "left_paren" /\ Semi.kind # "dot" /\ Semi.kind # "identifier"
    <2>1. Semi.kind = "other"
      BY SemiIs
    <2> QED
      BY <2>1, Zenon
  <1>3. ASSUME NEW n \in 1..Len(a) PROVE n \in Calls(c) <=> n \in Calls(a)
    <2>1. n \in 1..Len(c) /\ c[n] = a[n]
      BY <1>1
    <2>2. IsKind(c, n + 1, "left_paren") <=> IsKind(a, n + 1, "left_paren")
      <3>1. CASE n = Len(a)
        BY <1>1, <1>2, <3>1 DEF IsKind
      <3>2. CASE n # Len(a)
        <4>1. n + 1 \in 1..Len(a) /\ n + 1 \in 1..Len(c)
          <5>1. Len(a) \in Nat /\ Len(t) \in Nat /\ Len(c) = Len(a) + 1 + Len(t)
            BY <1>1
          <5> QED
            BY ONLY <3>2, <5>1, n \in 1..Len(a)
        <4> QED
          BY <1>1, <4>1 DEF IsKind
      <3> QED
        BY <3>1, <3>2
    <2>3. IsKind(c, n - 1, "dot") <=> IsKind(a, n - 1, "dot")
      <3>1. n - 1 \in 1..Len(a) <=> n - 1 \in 1..Len(c)
        BY <1>1
      <3> QED
        BY <1>1, <3>1 DEF IsKind
    <2> QED
      BY <1>1, <2>1, <2>2, <2>3 DEF Calls
  <1>4. Len(a) + 1 \notin Calls(c)
    BY <1>1, <1>2 DEF Calls
  <1>5. ASSUME NEW i \in 1..Len(t) PROVE Len(a) + 1 + i \in Calls(c) <=> i \in Calls(t)
    <2> DEFINE n == Len(a) + 1 + i
    <2>1. n \in 1..Len(c) /\ c[n] = t[i]
      BY <1>1
    <2>2. IsKind(c, n + 1, "left_paren") <=> IsKind(t, i + 1, "left_paren")
      <3>1. n + 1 = Len(a) + 1 + (i + 1) /\ (n + 1 \in 1..Len(c) <=> i + 1 \in 1..Len(t))
        BY <1>1
      <3> QED
        BY <1>1, <3>1 DEF IsKind
    <2>3. IsKind(c, n - 1, "dot") <=> IsKind(t, i - 1, "dot")
      <3>1. CASE i = 1
        <4>1. n - 1 = Len(a) + 1 /\ i - 1 \notin 1..Len(t)
          BY <1>1, <3>1
        <4> QED
          BY <1>1, <1>2, <4>1 DEF IsKind
      <3>2. CASE i # 1
        <4>1. /\ n - 1 = Len(a) + 1 + (i - 1)
              /\ i - 1 \in 1..Len(t) /\ n - 1 \in 1..Len(c)
          BY <1>1, <3>2
        <4>2. c[n - 1] = t[i - 1]
          BY <1>1, <4>1, Zenon
        <4>3. n - 1 \in DOMAIN c /\ i - 1 \in DOMAIN t
          BY <1>1, <4>1, Zenon
        <4> QED
          BY <4>2, <4>3, Zenon DEF IsKind
      <3> QED
        BY <3>1, <3>2
    <2> HIDE DEF n
    <2>4. n \in Calls(c) <=> i \in Calls(t)
      BY <1>1, <2>1, <2>2, <2>3 DEF Calls
    <2> QED
      BY <2>4 DEF n
  <1> QED
    BY <1>3, <1>4, <1>5

FirstIsHint(a) == Calls(a) # {} => a[First(Calls(a), Len(a))].text = "approx_hint"

LEMMA FirstHintJoined ==
    ASSUME NEW a, NEW t, NEW c, Joins(c, a, t), FirstIsHint(a), FirstIsHint(t)
    PROVE  FirstIsHint(c)
  <1>1. /\ Len(a) \in Nat /\ Len(t) \in Nat
        /\ c \in Seq(Token) /\ a \in Seq(Token) /\ t \in Seq(Token)
        /\ Len(c) = Len(a) + 1 + Len(t)
        /\ \A n \in 1..Len(a) : c[n] = a[n]
        /\ \A n \in 1..Len(t) : c[Len(a) + 1 + n] = t[n]
    BY DEF Joins
  <1>2. /\ Calls(a) \in SUBSET (1..Len(a)) /\ Calls(a) \in SUBSET Nat
        /\ Calls(t) \in SUBSET (1..Len(t)) /\ Calls(t) \in SUBSET Nat
        /\ Calls(c) \in SUBSET (1..Len(c)) /\ Calls(c) \in SUBSET Nat
    BY <1>1, CallsType
  <1>3. /\ \A n \in 1..Len(a) : n \in Calls(c) <=> n \in Calls(a)
        /\ Len(a) + 1 \notin Calls(c)
        /\ \A n \in 1..Len(t) : Len(a) + 1 + n \in Calls(c) <=> n \in Calls(t)
    BY CallsJoined
  <1>4. ASSUME NEW n \in Calls(c), n > Len(a)
        PROVE  n - (Len(a) + 1) \in Calls(t)
    <2>1. n \in 1..Len(c) /\ n # Len(a) + 1
      BY <1>2, <1>3
    <2>2. n - (Len(a) + 1) \in 1..Len(t) /\ Len(a) + 1 + (n - (Len(a) + 1)) = n
      <3>1. Len(a) \in Nat /\ Len(t) \in Nat /\ Len(c) = Len(a) + 1 + Len(t)
        BY <1>1
      <3> QED
        BY ONLY <1>4, <2>1, <3>1
    <2> QED
      BY <1>3, <2>2
  <1>5. CASE Calls(a) # {}
    <2> DEFINE f == First(Calls(a), Len(a))
    <2>1. f \in Calls(a) \cup {Len(a)} /\ \A m \in Calls(a) \cup {Len(a)} : f <= m
      BY <1>1, <1>2, FirstIs
    <2>2. f \in Calls(a)
      <3>1. PICK n \in Calls(a) : TRUE
        BY <1>5
      <3>2. f <= n /\ n <= Len(a) /\ n \in Nat
        BY <1>2, <2>1, <3>1
      <3>3. f = Len(a) => n = f
        BY <1>1, <3>2
      <3> QED
        BY <2>1, <3>1, <3>3
    <2>3. a[f].text = "approx_hint"
      BY <1>5 DEF FirstIsHint
    <2> HIDE DEF f
    <2>4. f \in 1..Len(a) /\ f \in Calls(c) /\ c[f] = a[f]
      BY <1>1, <1>2, <1>3, <2>2
    <2>5. ASSUME NEW m \in Calls(c) PROVE f <= m
      <3>1. m \in Nat /\ m >= 1
        BY <1>2
      <3>2. CASE m <= Len(a)
        <4>1. m \in 1..Len(a)
          BY <1>1, <3>1, <3>2
        <4> QED
          BY <1>3, <2>1, <4>1
      <3>3. CASE ~(m <= Len(a))
        BY <1>1, <2>4, <3>1, <3>3
      <3> QED
        BY <3>2, <3>3
    <2>6. Len(c) \in Nat /\ f <= Len(c)
      BY <1>1, <2>4
    <2>7. First(Calls(c), Len(c)) = f
      BY <1>2, <2>4, <2>5, <2>6, FirstUnique
    <2> QED
      BY <2>3, <2>4, <2>7 DEF FirstIsHint
  <1>6. CASE Calls(a) = {}
    <2>1. SUFFICES ASSUME Calls(c) # {}
                   PROVE  c[First(Calls(c), Len(c))].text = "approx_hint"
      BY DEF FirstIsHint
    <2>2. \A n \in Calls(c) : n > Len(a)
      <3>1. ASSUME NEW n \in Calls(c), ~(n > Len(a)) PROVE FALSE
        <4>1. n \in 1..Len(a)
          BY <1>1, <1>2, <3>1
        <4> QED
          BY <1>3, <1>6, <4>1
      <3> QED
        BY <3>1
    <2>3. Calls(t) # {}
      BY <1>4, <2>1, <2>2
    <2> DEFINE f == First(Calls(t), Len(t))
               g == Len(a) + 1 + f
    <2>4. f \in Calls(t) \cup {Len(t)} /\ \A m \in Calls(t) \cup {Len(t)} : f <= m
      BY <1>1, <1>2, FirstIs
    <2>5. f \in Calls(t)
      <3>1. PICK n \in Calls(t) : TRUE
        BY <2>3
      <3>2. f <= n /\ n <= Len(t) /\ n \in Nat
        BY <1>2, <2>4, <3>1
      <3>3. f = Len(t) => n = f
        BY <1>1, <3>2
      <3> QED
        BY <2>4, <3>1, <3>3
    <2>6. t[f].text = "approx_hint"
      BY <2>3 DEF FirstIsHint
    <2> HIDE DEF f
    <2>7. f \in 1..Len(t) /\ g \in Calls(c) /\ c[g] = t[f]
      BY <1>1, <1>2, <1>3, <2>5
    <2>8. ASSUME NEW m \in Calls(c) PROVE g <= m
      <3>1. m - (Len(a) + 1) \in Calls(t) /\ m \in Nat
        BY <1>2, <1>4, <2>2
      <3>2. f <= m - (Len(a) + 1)
        BY <2>4, <3>1
      <3> QED
        BY <1>1, <2>7, <3>1, <3>2
    <2>9. Len(c) \in Nat /\ g <= Len(c)
      BY <1>1, <2>7
    <2> HIDE DEF g
    <2>10. First(Calls(c), Len(c)) = g
      BY <1>2, <2>7, <2>8, <2>9, FirstUnique
    <2> QED
      BY <2>6, <2>7, <2>10
  <1> QED
    BY <1>5, <1>6

LEMMA HintedFirst ==
    ASSUME NEW w, NEW m, NEW h, Hinted(w, m, h), m[1] = Insert, IsHint(h)
    PROVE  /\ w[1] = Insert /\ IsWord(w, 2, "approx_hint") /\ IsKind(w, 3, "left_paren")
           /\ 2 \in Calls(w) /\ Len(h) >= 2
           /\ FirstIsHint(w)
  <1>1. /\ w \in Seq(Token) /\ m \in Seq(Token) /\ h \in Seq(Token) /\ m # <<>>
        /\ Len(w) = Len(m) + Len(h) /\ Len(m) \in Nat /\ Len(h) \in Nat /\ Len(m) >= 1
        /\ w[1] = Insert
        /\ \A i \in 1..Len(h) : w[1 + i] = h[i]
        /\ DOMAIN w = 1..Len(w) /\ DOMAIN h = 1..Len(h)
    BY DEF Hinted
  <1>2. /\ 1 \in DOMAIN h /\ h[1].kind = "identifier" /\ h[1].text = "approx_hint"
        /\ 2 \in DOMAIN h /\ h[2].kind = "left_paren"
    BY Zenon DEF IsHint, IsWord, IsKind
  <1>3. Len(h) >= 2 /\ 1 + 1 = 2 /\ 1 + 2 = 3
    BY <1>1, <1>2
  <1>4. 1 \in DOMAIN w /\ 2 \in DOMAIN w /\ 3 \in DOMAIN w
    BY <1>1, <1>3
  <1>5. w[2] = h[1] /\ w[3] = h[2]
    BY <1>1, <1>2, <1>3
  <1>6. IsWord(w, 2, "approx_hint") /\ IsKind(w, 3, "left_paren")
    BY <1>2, <1>4, <1>5, Zenon DEF IsWord, IsKind
  <1>7. ~IsKind(w, 1, "dot") /\ ~IsKind(w, 2, "left_paren")
    <2>1. w[1].kind = "identifier" /\ w[2].kind = "identifier"
      BY <1>1, <1>2, <1>5, InsertIs, Zenon
    <2>2. "identifier" # "dot" /\ "identifier" # "left_paren"
      BY Zenon
    <2> QED
      BY <2>1, <2>2, Zenon DEF IsKind
  <1>8. 2 + 1 = 3 /\ 2 - 1 = 1 /\ 1 + 1 = 2
    OBVIOUS
  <1>9. 2 \in Calls(w)
    <2>1. "approx_hint" \in ApproxName
      BY Zenon DEF ApproxName
    <2>2. w[2].kind = "identifier" /\ w[2].text = "approx_hint"
      BY <1>6, Zenon DEF IsWord, IsKind
    <2> QED
      BY <1>4, <1>6, <1>7, <1>8, <2>1, <2>2, Zenon DEF Calls
  <1>10. 1 \notin Calls(w)
    BY <1>7, <1>8, Zenon DEF Calls
  <1>11. Calls(w) \in SUBSET (1..Len(w)) /\ Calls(w) \in SUBSET Nat
    BY <1>1, CallsType
  <1>12. First(Calls(w), Len(w)) = 2
    <2>1. \A n \in Calls(w) \cup {Len(w)} : 2 <= n
      BY <1>1, <1>3, <1>10, <1>11
    <2>2. Len(w) \in Nat
      BY <1>1
    <2> QED
      BY <1>9, <1>11, <2>1, <2>2, FirstUnique
  <1>13. FirstIsHint(w)
    BY <1>6, <1>12, Zenon DEF FirstIsHint, IsWord
  <1> QED
    BY <1>1, <1>3, <1>6, <1>9, <1>13

\* Of a script without calls, only the hints look like some.
LEMMA ScriptFirst ==
    ASSUME NEW s, IsScript(s), Len(s) # 0,
           \A n \in 1..Len(s) : Calls(AsMeant(s)[n]) = {}
    PROVE  FirstIsHint(Tokenize(TextOf(s)))
  <1>1. PICK ts : /\ Accumulates(ts, AsWritten(s))
                  /\ \A n \in 1..Len(s) : ts[n] \in Seq(Token)
                  /\ ts[Len(s)] = Tokenize(TextOf(s))
    BY ScriptText
  <1>2. /\ Len(s) \in Nat /\ Len(s) >= 1 /\ \A n \in 1..Len(s) : IsStatement(s[n])
        /\ Len(AsWritten(s)) = Len(s)
    BY ScriptStatements DEF IsScript
  <1>3. ASSUME NEW n \in 1..Len(s) PROVE FirstIsHint(AsWritten(s)[n])
    <2> DEFINE w == Tokenize(Written(s[n]))
               m == Tokenize(s[n].meant)
               h == Tokenize(s[n].hint)
    <2>1. /\ s[n].hint = <<>> => w = m
          /\ s[n].hint # <<>> => m[1] = Insert /\ IsHint(h) /\ Hinted(w, m, h)
      BY <1>2, StatementIs
    <2>2. AsMeant(s)[n] = m /\ AsWritten(s)[n] = w
      BY DEF AsMeant, AsWritten
    <2> HIDE DEF w, m, h
    <2>3. CASE s[n].hint = <<>>
      BY <2>1, <2>2, <2>3 DEF FirstIsHint
    <2>4. CASE s[n].hint # <<>>
      BY <2>1, <2>2, <2>4, HintedFirst
    <2> QED
      BY <2>3, <2>4
  <1> DEFINE Good(n) == n + 1 <= Len(s) => FirstIsHint(ts[n + 1])
             S == {n \in Nat : Good(n)}
  <1>4. Good(0)
    BY <1>1, <1>2, <1>3 DEF Accumulates
  <1>5. ASSUME NEW n \in Nat, Good(n) PROVE Good(n + 1)
    <2> DEFINE m == n + 1
    <2>1. SUFFICES ASSUME m + 1 <= Len(s) PROVE FirstIsHint(ts[m + 1])
      OBVIOUS
    <2>2. /\ m <= Len(s) /\ m + 1 \in 2..Len(s) /\ m + 1 \in 1..Len(s) /\ (m + 1) - 1 = m
      BY <1>2, <2>1
    <2>3. FirstIsHint(ts[m])
      BY <1>5, <2>2
    <2> HIDE DEF m
    <2>4. Joins(ts[m + 1], ts[m], AsWritten(s)[m + 1])
      BY <1>1, <1>2, <2>2 DEF Accumulates
    <2> QED
      BY <1>3, <2>2, <2>3, <2>4, FirstHintJoined
  <1> HIDE DEF Good
  <1>6. 0 \in S /\ \A n \in Nat : n \in S => n + 1 \in S
    BY <1>4, <1>5
  <1> HIDE DEF S
  <1>7. Len(s) - 1 \in S
    <2>1. Len(s) - 1 \in Nat
      BY <1>2
    <2> QED
      BY <1>6, <2>1, Upwards
  <1>8. (Len(s) - 1) + 1 = Len(s) /\ Len(s) <= Len(s)
    BY <1>2
  <1> QED
    BY <1>1, <1>7, <1>8 DEF S, Good

LEMMA EmptyScript ==
    ASSUME NEW s, IsScript(s), Len(s) = 0
    PROVE  Tokenize(TextOf(s)) = <<>> /\ Calls(<<>>) = {} /\ Parted(<<>>) = <<>>
  <1>1. TextOf(s) = <<>>
    <2> DEFINE ws == [n \in DOMAIN s |-> IF n = 1 THEN Written(s[n])
                                         ELSE <<Semicolon>> \o Written(s[n])]
    <2>1. Len(s) = 0 /\ DOMAIN s = 1..0
      BY DEF IsScript
    <2>2. DOMAIN ws = 1..0
      BY <2>1
    <2>3. TextOf(s) = FlattenSeq(ws)
      BY Zenon DEF TextOf
    <2> HIDE DEF ws
    <2> QED
      BY <2>2, <2>3 DEF FlattenSeq
  <1>2. Calls(<<>>) = {}
    BY DEF Calls
  <1>3. Parted(<<>>) = <<>>
    <2> DEFINE e == <<>>
    <2>1. e \in Seq(Token) /\ Len(e) = 0
      OBVIOUS
    <2> HIDE DEF e
    <2>2. Starts(e) = {}
      BY <2>1 DEF Starts
    <2>3. Len(Parted(e)) = 0 /\ Parted(e) \in Seq(Seq(Token))
      BY <2>1, <2>2, PartedIs, FS_EmptySet
    <2>4. Parted(e) = <<>>
      <3> DEFINE q == Seq(Token)
                 p == Parted(e)
      <3>1. p \in Seq(q) /\ Len(p) = 0
        BY <2>3
      <3> HIDE DEF q, p
      <3>2. p = <<>>
        BY <3>1
      <3> QED
        BY <3>2 DEF p
    <2> QED
      BY <2>4 DEF e
  <1> QED
    BY <1>1, <1>2, <1>3, TokenizeNone

-----------------------------------------------------------------------------
(* What a plan gives DuckDB *)

\* The text is given without the hint.
HintCut(ts) ==
    /\ IsWord(ts, 1, "insert") /\ IsWord(ts, 2, "approx_hint") /\ HintRead(ts)
    /\ IsWord(ts, HintEnd(ts) + 6, "into")

LEMMA InsertFacts ==
    ASSUME NEW ts, IsWord(ts, 1, "insert")
    PROVE  /\ InsertPlan(ts).mode = "exact" /\ InsertPlan(ts).invalidates
           /\ \/ InsertPlan(ts).sql = ts
              \/ HintCut(ts) /\ InsertPlan(ts).sql = Unhinted(ts, HintEnd(ts) + 6)
  <1> DEFINE hinted == IsWord(ts, 2, "approx_hint")
             into == IF hinted THEN HintEnd(ts) + 6 ELSE 2
             sql == IF hinted THEN Unhinted(ts, into) ELSE ts
             p == InsertPlan(ts)
  <1>1. \A us : /\ OtherMutation(us).mode = "exact" /\ OtherMutation(us).sql = us
                /\ OtherMutation(us).invalidates
    BY DEF ExactPlan, OtherMutation
  <1>2. \/ p = OtherMutation(ts)
        \/ /\ hinted => HintRead(ts)
           /\ IsWord(ts, into, "into")
           /\ p.mode = "exact" /\ p.sql = sql /\ p.invalidates
    BY DEF InsertPlan, ExactPlan, OtherMutation
  <1>3. CASE p = OtherMutation(ts)
    BY <1>1, <1>3
  <1>4. CASE /\ hinted => HintRead(ts)
             /\ IsWord(ts, into, "into")
             /\ p.mode = "exact" /\ p.sql = sql /\ p.invalidates
    <2>1. CASE hinted
      BY <1>4, <2>1, Zenon DEF HintCut
    <2>2. CASE ~hinted
      BY <1>4, <2>2, Zenon
    <2> QED
      BY <2>1, <2>2
  <1> QED
    BY <1>2, <1>3, <1>4

LEMMA PlanFacts ==
    ASSUME NEW ts
    PROVE  /\ PlanOf(ts).mode = "approximate" =>
                 /\ Calls(ts) # {}
                 /\ PlanOf(ts).function = ts[First(Calls(ts), Len(ts))].text
           /\ PlanOf(ts).mode # "approximate" =>
                 \/ PlanOf(ts).sql = ts
                 \/ HintCut(ts) /\ PlanOf(ts).sql = Unhinted(ts, HintEnd(ts) + 6)
           /\ PlanOf(ts).mode # "approximate" /\ ~PlanOf(ts).invalidates =>
                 PlanOf(ts).sql = ts /\ ~ContainsMutation(ts)
  <1>1. \A us : /\ OtherMutation(us).mode = "exact" /\ OtherMutation(us).sql = us
                /\ OtherMutation(us).invalidates
                /\ ExactPlan(us).mode = "exact" /\ ExactPlan(us).sql = us
                /\ ~ExactPlan(us).invalidates
    BY DEF ExactPlan, OtherMutation
  <1>2. /\ ApproxPlan(ts).mode = "approximate"
        /\ ApproxPlan(ts).function = ts[First(Calls(ts), Len(ts))].text
    BY DEF ApproxPlan, ExactPlan
  <1>3. "approximate" # "exact"
    BY Zenon
  <1>4. CASE IsWord(ts, 1, "insert")
    BY <1>3, <1>4, InsertFacts, Zenon DEF PlanOf
  <1>5. CASE ~IsWord(ts, 1, "insert") /\ Calls(ts) # {}
    BY <1>2, <1>5, Zenon DEF PlanOf
  <1>6. CASE ~IsWord(ts, 1, "insert") /\ Calls(ts) = {}
    BY <1>1, <1>3, <1>6, Zenon DEF PlanOf
  <1> QED
    BY <1>4, <1>5, <1>6

LEMMA ScriptTokens ==
    ASSUME NEW s, IsScript(s)
    PROVE  Tokenize(TextOf(s)) \in Seq(Token)
  <1>1. CASE Len(s) = 0
    <2>1. Tokenize(TextOf(s)) = <<>>
      BY <1>1, EmptyScript
    <2>2. <<>> \in Seq(Token)
      OBVIOUS
    <2> QED
      BY <2>1, <2>2, Zenon
  <1>2. CASE Len(s) # 0
    <2>1. Len(s) \in 1..Len(s)
      BY <1>2 DEF IsScript
    <2> QED
      BY <1>2, <2>1, ScriptText
  <1> QED
    BY <1>1, <1>2

LEMMA MatchingIs ==
    ASSUME NEW ts \in Seq(Token), NEW l \in Nat
    PROVE  /\ MatchingParen(ts, l) \in Nat
           /\ MatchingParen(ts, l) <= Len(ts) + 1
           /\ \/ MatchingParen(ts, l) = Len(ts) + 1
              \/ /\ MatchingParen(ts, l) \in l..Len(ts)
                 /\ Opened(ts, l, MatchingParen(ts, l)) = 0
           /\ \A n \in l..Len(ts) :
                 n < MatchingParen(ts, l) => Opened(ts, l, n) # 0
  <1> DEFINE ns == {n \in l..Len(ts) : Opened(ts, l, n) = 0}
             f == First(ns, Len(ts) + 1)
  <1>1. ns \in SUBSET Nat /\ Len(ts) \in Nat /\ Len(ts) + 1 \in Nat
        /\ \A n \in ns : n <= Len(ts)
    OBVIOUS
  <1>2. f \in ns \cup {Len(ts) + 1} /\ \A m \in ns \cup {Len(ts) + 1} : f <= m
    BY <1>1, FirstIs
  <1>3. MatchingParen(ts, l) = f
    BY Zenon DEF MatchingParen
  <1>4. /\ f \in Nat /\ f <= Len(ts) + 1
        /\ f = Len(ts) + 1 \/ (f \in l..Len(ts) /\ Opened(ts, l, f) = 0)
    <2> HIDE DEF f
    <2> QED
      BY <1>1, <1>2
  <1>5. ASSUME NEW n \in l..Len(ts), n < f PROVE Opened(ts, l, n) # 0
    <2>1. n \notin ns
      <3> HIDE DEF f, ns
      <3>1. f \in Nat /\ n \in Nat
        BY <1>4
      <3> QED
        BY <1>2, <1>5, <3>1
    <2> QED
      BY <2>1
  <1> HIDE DEF f
  <1> QED
    BY <1>3, <1>4, <1>5

LEMMA UnhintedType ==
    ASSUME NEW ts \in Seq(Token), HintCut(ts)
    PROVE  Unhinted(ts, HintEnd(ts) + 6) \in Seq(Token)
  <1> DEFINE into == HintEnd(ts) + 6
  <1>1. HintEnd(ts) \in Nat
    BY MatchingIs DEF HintEnd
  <1>2. into \in 1..Len(ts) /\ 1 \in 1..Len(ts)
    <2>1. into \in DOMAIN ts /\ 1 \in DOMAIN ts
      BY Zenon DEF HintCut, IsWord, IsKind
    <2> QED
      BY <2>1
  <1> HIDE DEF into
  <1>3. <<ts[1]>> \in Seq(Token) /\ SubSeq(ts, into, Len(ts)) \in Seq(Token)
    BY <1>2
  <1> DEFINE a == <<ts[1]>>
             b == SubSeq(ts, into, Len(ts))
  <1>4. a \in Seq(Token) /\ b \in Seq(Token)
    BY <1>3
  <1>5. Unhinted(ts, into) = a \o b
    BY Zenon DEF Unhinted
  <1> HIDE DEF a, b
  <1>6. a \o b \in Seq(Token)
    BY <1>4, ConcatProperties
  <1> QED
    BY <1>5, <1>6 DEF into

\* What a plan without a sketch runs is a text.
LEMMA SqlType ==
    ASSUME NEW ts \in Seq(Token), PlanOf(ts).mode # "approximate"
    PROVE  PlanOf(ts).sql \in Seq(Token)
  BY PlanFacts, UnhintedType

-----------------------------------------------------------------------------
(* What a call has run when it returns *)

\* The present call is of one of the scripts, and is planned.
Planned == script \in Scripts /\ plan = PlanOf(Tokenize(TextOf(script)))

\* The statements run and left are those of the text, none of them with a
\* function that DuckDB does not know among those run.
Running ==
    /\ done \in Seq(Seq(Token)) /\ left \in Seq(Seq(Token))
    /\ done \o left = Parted(plan.sql)
    /\ \A n \in DOMAIN done : Understood(done[n])

Ended ==
    IF Approximate THEN plan.function \in Supported
    ELSE /\ done = Parted(plan.sql) /\ \A n \in DOMAIN done : Understood(done[n])
         /\ \/ heard = "cleared"
            \/ heard = "streamed" /\ plan.kind = "values"
            \/ ~plan.invalidates

\* ChangesHeard and NothingDropped are about the call when it has returned;
\* this is what is true of it on the way.
Ran ==
    /\ stage \in InCall \/ Returned => Planned
    /\ stage # "returned" => heard = "nothing"
    /\ stage \in {"start", "prompt", "planned"} => done = <<>>
    /\ stage \in {"running", "rows", "emitting"} /\ Approximate =>
          plan.function \in Supported
    /\ stage = "emitting" => Approximate
    /\ stage = "executed" => ~Approximate
    /\ stage \in {"running", "rows", "executed"} /\ ~Approximate => Running
    /\ stage \in {"rows", "executed"} => left = <<>>
    /\ Returned /\ rc = "ok" => Ended

LEMMA InitRan == Init => Ran
  BY DEF Init, Ran, InCall, Returned

LEMMA ClientRan ==
    ASSUME Ran, ClientStep
    PROVE  Ran'
  <1>1. CASE OpenSucceeds \/ OpenFails \/ SkipLine \/ Misuse \/ Leave
    <2>1. /\ stage \in {"start", "prompt"}
          /\ stage' \in {"prompt", "returned", "ended"}
          /\ stage' = "returned" => rc' = "misuse"
          /\ done' = done /\ heard' = heard
      BY <1>1 DEF OpenSucceeds, OpenFails, SkipLine, Misuse, Leave
    <2> QED
      BY <2>1 DEF Ran, InCall, Returned
  <1>2. CASE Exec
    <2>1. /\ stage = "prompt" /\ stage' = "planned" /\ done' = done /\ heard' = heard
          /\ script' \in Scripts /\ plan' = PlanOf(Tokenize(TextOf(script')))
      BY <1>2, Zenon DEF Exec
    <2> QED
      BY <2>1 DEF Ran, InCall, Returned, Planned
  <1>3. CASE NextLine
    BY <1>3 DEF NextLine, Ran, InCall, Returned
  <1> QED
    BY <1>1, <1>2, <1>3 DEF ClientStep

\* d and l once the first element of l has moved to the end of d.
Moved(S, d, l) ==
    /\ Append(d, Head(l)) \in Seq(S) /\ Tail(l) \in Seq(S)
    /\ Append(d, Head(l)) \o Tail(l) = d \o l
    /\ \A n \in DOMAIN Append(d, Head(l)) :
          (n \in DOMAIN d /\ Append(d, Head(l))[n] = d[n])
            \/ Append(d, Head(l))[n] = Head(l)

\* A statement that has run goes from one sequence to the other.
LEMMA OneMoreRun ==
    ASSUME NEW S, NEW d \in Seq(S), NEW l \in Seq(S), l # <<>>
    PROVE  Moved(S, d, l)
  <1> DEFINE e == Append(d, Head(l))
             t == Tail(l)
             x == e \o t
             y == d \o l
  <1>1. /\ Head(l) \in S /\ Head(l) = l[1] /\ t \in Seq(S) /\ Len(t) = Len(l) - 1
        /\ \A n \in 1..Len(l) - 1 : t[n] = l[n + 1]
        /\ Len(l) \in Nat /\ Len(l) >= 1 /\ Len(d) \in Nat
    OBVIOUS
  <1>2. /\ e \in Seq(S) /\ Len(e) = Len(d) + 1 /\ e[Len(d) + 1] = Head(l)
        /\ \A n \in 1..Len(d) : e[n] = d[n]
    BY <1>1
  <1> HIDE DEF e, t
  <1>3. /\ x \in Seq(S) /\ Len(x) = Len(e) + Len(t)
        /\ \A i \in 1..Len(e) + Len(t) : x[i] = IF i <= Len(e) THEN e[i] ELSE t[i - Len(e)]
    BY <1>1, <1>2, ConcatProperties
  <1>4. /\ y \in Seq(S) /\ Len(y) = Len(d) + Len(l)
        /\ \A i \in 1..Len(d) + Len(l) : y[i] = IF i <= Len(d) THEN d[i] ELSE l[i - Len(d)]
    BY ConcatProperties
  <1> HIDE DEF x, y
  <1>5. ASSUME NEW i \in 1..Len(x) PROVE x[i] = y[i]
    <2>1. CASE i <= Len(d)
      <3>1. i \in 1..Len(d) /\ i <= Len(e) /\ i \in 1..Len(e) + Len(t) /\ i \in 1..Len(d) + Len(l)
        BY <1>1, <1>2, <1>3, <2>1
      <3> QED
        BY <1>2, <1>3, <1>4, <2>1, <3>1
    <2>2. CASE i = Len(d) + 1
      <3>1. /\ i <= Len(e) /\ i \in 1..Len(e) + Len(t) /\ i \in 1..Len(d) + Len(l)
            /\ ~(i <= Len(d)) /\ i - Len(d) = 1
        BY <1>1, <1>2, <1>3, <2>2
      <3>2. x[i] = e[i] /\ y[i] = l[1]
        BY <1>3, <1>4, <3>1
      <3> QED
        BY <1>1, <1>2, <2>2, <3>2
    <2>3. CASE i > Len(d) + 1
      <3>1. /\ ~(i <= Len(e)) /\ i \in 1..Len(e) + Len(t) /\ i \in 1..Len(d) + Len(l)
            /\ ~(i <= Len(d)) /\ i - Len(e) \in 1..Len(l) - 1
            /\ (i - Len(e)) + 1 = i - Len(d)
        BY <1>1, <1>2, <1>3, <2>3
      <3>2. x[i] = t[i - Len(e)] /\ y[i] = l[i - Len(d)]
        BY <1>3, <1>4, <3>1
      <3> QED
        BY <1>1, <3>1, <3>2
    <2> QED
      BY <1>1, <1>2, <1>3, <2>1, <2>2, <2>3
  <1>6. x = y
    <2>1. Len(x) = Len(y)
      BY <1>1, <1>2, <1>3, <1>4
    <2> QED
      BY <1>3, <1>4, <1>5, <2>1, SeqEqual
  <1>7. ASSUME NEW n \in DOMAIN e
        PROVE  (n \in DOMAIN d /\ e[n] = d[n]) \/ e[n] = Head(l)
    <2>1. n \in 1..Len(d) + 1 /\ DOMAIN d = 1..Len(d)
      BY <1>2
    <2> QED
      BY <1>1, <1>2, <2>1
  <1> QED
    BY <1>1, <1>2, <1>6, <1>7, Zenon DEF x, y, e, t, Moved

LEMMA RunRan ==
    ASSUME Ran, RunStatement
    PROVE  Ran'
  <1>1. /\ stage = "running" /\ stage' = stage /\ heard' = heard
        /\ script' = script /\ plan' = plan
        /\ left # <<>> /\ Understood(Head(left))
        /\ left' = Tail(left) /\ done' = Append(done, Head(left))
    BY DEF RunStatement, call
  <1>2. Approximate' <=> Approximate
    BY <1>1 DEF Approximate
  <1>3. ASSUME ~Approximate PROVE Running'
    <2> DEFINE q == Seq(Token)
               d == done
               l == left
    <2>1. /\ d \in Seq(q) /\ l \in Seq(q) /\ d \o l = Parted(plan.sql)
          /\ \A n \in DOMAIN d : Understood(d[n])
      BY <1>1, <1>3 DEF Ran, Running
    <2>2. /\ l # <<>> /\ Understood(Head(l))
          /\ left' = Tail(l) /\ done' = Append(d, Head(l))
      BY <1>1
    <2> HIDE DEF q, d, l
    <2>3. /\ Append(d, Head(l)) \in Seq(q) /\ Tail(l) \in Seq(q)
          /\ Append(d, Head(l)) \o Tail(l) = d \o l
          /\ \A n \in DOMAIN Append(d, Head(l)) :
                (n \in DOMAIN d /\ Append(d, Head(l))[n] = d[n])
                  \/ Append(d, Head(l))[n] = Head(l)
      <3>1. d \in Seq(q)
        BY <2>1
      <3>2. l \in Seq(q)
        BY <2>1
      <3>3. l # <<>>
        BY <2>2
      <3>4. Moved(q, d, l)
        BY ONLY <3>1, <3>2, <3>3, OneMoreRun
      <3> QED
        BY <3>4, Zenon DEF Moved
    <2>4. /\ done' \in Seq(q) /\ left' \in Seq(q) /\ done' \o left' = Parted(plan'.sql)
      BY <1>1, <2>1, <2>2, <2>3, Zenon
    <2>5. \A n \in DOMAIN done' : Understood(done'[n])
      BY <2>1, <2>2, <2>3, Zenon
    <2> QED
      BY <2>4, <2>5, Zenon DEF Running, q
  <1> HIDE DEF Running
  <1>4. /\ stage' = "running" /\ heard' = "nothing" /\ Planned'
        /\ Approximate => plan'.function \in Supported
    BY <1>1 DEF Ran, InCall, Planned
  <1> QED
    BY <1>2, <1>3, <1>4 DEF Ran, Returned

LEMMA QueryRan ==
    ASSUME Ran, Query
    PROVE  Ran'
  <1>1. /\ stage = "planned" /\ stage' = "running" /\ heard' = heard
        /\ script' = script /\ plan' = plan /\ done' = done
        /\ Approximate => plan.function \in Supported
        /\ left' = Parted(plan.sql)
    BY DEF Query, call
  <1>2. /\ Planned /\ heard = "nothing" /\ done = <<>>
    BY <1>1 DEF Ran, InCall
  <1>3. ASSUME ~Approximate PROVE Running'
    <2>1. IsScript(script)
      BY <1>2, ScriptsAssumption DEF Planned, IsScript
    <2>2. plan.sql \in Seq(Token)
      BY <1>2, <1>3, <2>1, ScriptTokens, SqlType DEF Planned, Approximate
    <2> DEFINE q == Seq(Token)
               r == Parted(plan.sql)
    <2>3. r \in Seq(q)
      BY <2>2, PartedIs
    <2> HIDE DEF q, r
    <2>4. <<>> \in Seq(q) /\ <<>> \o r = r
      BY <2>3
    <2>5. done' = <<>> /\ left' = r /\ r = Parted(plan'.sql)
      BY <1>1, <1>2 DEF r
    <2>6. done' \o left' = r
      BY <2>4, <2>5, Zenon
    <2>7. \A n \in DOMAIN done' : FALSE
      BY <2>5
    <2> QED
      BY <2>3, <2>4, <2>5, <2>6, <2>7, Zenon DEF Running, q
  <1> HIDE DEF Running
  <1>4. Planned' /\ (Approximate' <=> Approximate)
    BY <1>1, <1>2 DEF Planned, Approximate
  <1> QED
    BY <1>1, <1>2, <1>3, <1>4 DEF Ran, Returned

LEMMA CallRan ==
    ASSUME Ran, CallStep, ~RunStatement, ~Query
    PROVE  Ran'
  <1>1. /\ script' = script /\ plan' = plan /\ done' = done /\ left' = left
        /\ stage \in InCall /\ Planned /\ heard = "nothing"
    BY DEF CallStep, Refuse, UseSketch, StatementFails, HaveResult, AbortRows, QueryFails,
           RowsEndHere, EmitAnswer, Stream, Finish, call, InCall, Ran
  <1>2. /\ Planned' /\ (Approximate' <=> Approximate) /\ (Running' <=> Running)
    BY <1>1 DEF Planned, Approximate, Running
  <1>3. CASE Refuse \/ QueryFails \/ (EmitAnswer /\ ~Succeed)
    <2>1. stage' = "returned" /\ rc' \in {"error", "nomem"}
      BY <1>3 DEF Refuse, QueryFails, EmitAnswer, SetError
    <2> QED
      BY <1>2, <2>1 DEF Ran, Returned, InCall
  <1>4. CASE EmitAnswer /\ Succeed
    <2>1. stage = "emitting" /\ stage' = "returned" /\ rc' = "ok"
      BY <1>4 DEF EmitAnswer, Succeed
    <2>2. Approximate /\ plan.function \in Supported
      BY <2>1 DEF Ran
    <2>3. Ended'
      BY <1>1, <1>2, <2>2 DEF Ended
    <2> QED
      BY <1>2, <2>1, <2>3 DEF Ran, Returned, InCall
  <1>5. CASE UseSketch \/ StatementFails \/ AbortRows
    <2>1. /\ stage' \in {"emitting", "failed"} /\ heard' = heard
          /\ stage' = "emitting" => Approximate /\ plan.function \in Supported
      BY <1>5 DEF UseSketch, StatementFails, AbortRows, outcome
    <2> QED
      BY <1>1, <1>2, <2>1 DEF Ran, Returned, InCall
  <1>6. CASE HaveResult
    BY <1>1, <1>2, <1>6 DEF HaveResult, Ran, Returned, InCall
  <1>7. CASE RowsEndHere
    BY <1>1, <1>2, <1>7 DEF RowsEndHere, Ran, Returned, InCall
  <1>8. CASE Stream \/ Finish
    <2>1. /\ stage = "executed" /\ stage' = "returned" /\ rc' = "ok"
          /\ \/ heard' = "streamed" /\ plan.kind = "values"
             \/ heard' = IF plan.invalidates THEN "cleared" ELSE heard
      BY <1>8 DEF Stream, Finish, Succeed
    <2>2. ~Approximate /\ Running /\ left = <<>>
      BY <2>1 DEF Ran
    <2>3. done = Parted(plan.sql)
      <3> DEFINE q == Seq(Token)
      <3>1. done \in Seq(q) /\ done \o <<>> = Parted(plan.sql)
        BY <2>2, Zenon DEF Running
      <3> HIDE DEF q
      <3>2. done \o <<>> = done
        BY <3>1
      <3> QED
        BY <3>1, <3>2, Zenon
    <2>4. \A n \in DOMAIN done : Understood(done[n])
      BY <2>2 DEF Running
    <2>5. Ended'
      BY <1>1, <1>2, <2>1, <2>2, <2>3, <2>4 DEF Ended
    <2> QED
      BY <1>2, <2>1, <2>5 DEF Ran, Returned, InCall
  <1> QED
    BY <1>3, <1>4, <1>5, <1>6, <1>7, <1>8, Zenon DEF CallStep

LEMMA NextRan == Ran /\ [Next]_vars => Ran'
  <1>1. CASE UNCHANGED vars
    BY <1>1 DEF vars, Ran, Returned, Planned, Running, Ended, Approximate
  <1> QED
    BY <1>1, ClientRan, RunRan, QueryRan, CallRan DEF Next

LEMMA SpecRan == Spec => []Ran
  BY InitRan, NextRan, PTL DEF Spec

\* The text of a call that is answered exactly has no call that is answered
\* approximately.
LEMMA ExactEnd ==
    ASSUME Ran, Returned, rc = "ok", Exactly
    PROVE  /\ IsScript(script) /\ plan = PlanOf(Tokenize(TextOf(script)))
           /\ \A n \in 1..Len(script) : Calls(AsMeant(script)[n]) = {}
           /\ ~Approximate /\ Ended
  <1> DEFINE T == Tokenize(TextOf(script))
  <1>1. /\ IsScript(script) /\ plan = PlanOf(T) /\ Ended
    BY ScriptsAssumption DEF Ran, Planned, IsScript
  <1>2. \A n \in 1..Len(script) : Calls(AsMeant(script)[n]) = {}
    BY <1>1 DEF Exactly, AsMeant, IsScript
  <1>3. ASSUME Approximate PROVE FALSE
    <2>1. Calls(T) # {} /\ plan.function = T[First(Calls(T), Len(T))].text
      BY <1>1, <1>3, PlanFacts DEF Approximate
    <2>2. plan.function \in Supported
      BY <1>1, <1>3 DEF Ended
    <2>3. Len(script) # 0
      BY <1>1, <2>1, EmptyScript
    <2>4. FirstIsHint(T)
      BY <1>1, <1>2, <2>3, ScriptFirst
    <2>5. plan.function = "approx_hint"
      BY <2>1, <2>4 DEF FirstIsHint
    <2>6. "approx_hint" \notin Supported
      BY Zenon DEF Supported
    <2> QED
      BY <2>2, <2>5, <2>6, Zenon
  <1> QED
    BY <1>1, <1>2, <1>3

LEMMA RanChangesHeard == Ran => ChangesHeard
  <1> SUFFICES ASSUME Ran, Returned, rc = "ok", Exactly,
                      NEW n \in DOMAIN done, done[n][1].kind = "identifier",
                      done[n][1].text \in Documented,
                      plan.kind = "values" => Len(done) = 1,
                      heard # "cleared"
               PROVE  heard = "streamed" /\ OneInsert
    BY Zenon DEF ChangesHeard
  <1> DEFINE T == Tokenize(TextOf(script))
  <1>1. IsScript(script) /\ plan = PlanOf(T) /\ ~Approximate /\ Ended
    BY ExactEnd
  <1>2. CASE heard = "streamed" /\ plan.kind = "values"
    BY <1>2 DEF OneInsert
  <1>3. CASE ~plan.invalidates
    <2>1. plan.sql = T /\ ~ContainsMutation(T)
      BY <1>1, <1>3, PlanFacts DEF Approximate
    <2>2. done = Parted(T) /\ T \in Seq(Token)
      BY <1>1, <2>1, ScriptTokens DEF Ended
    <2> HIDE DEF T
    <2>3. PICK k \in Starts(T) : done[n][1] = T[k]
      BY <2>2, PartedStarts
    <2>4. /\ k \in DOMAIN T /\ (k = 1 \/ IsSemicolon(T[k - 1]))
          /\ T[k].kind = "identifier" /\ T[k].text \in MutationKeyword
      <3>1. k \in DOMAIN T /\ (k = 1 \/ IsSemicolon(T[k - 1]))
        BY <2>3 DEF Starts
      <3>2. \A x : x \in Documented => x \in MutationKeyword
        BY Zenon DEF Documented, MutationKeyword
      <3> QED
        BY <2>3, <3>1, <3>2, Zenon
    <2> QED
      BY <2>1, <2>3, <2>4, Zenon DEF ContainsMutation, Starts
  <1> QED
    BY <1>1, <1>2, <1>3 DEF Ended

\* Whatever the statements of a call are and wherever a mutation that the
\* documentation names stands among them: when the call succeeds, the sketches
\* are dropped, or are given the values of the one INSERT (contains_mutation_statement,
\* apply_stream_or_invalidate).
THEOREM SpecChangesHeard == Spec => []ChangesHeard
  BY SpecRan, RanChangesHeard, PTL

-----------------------------------------------------------------------------
(* Parentheses: where the hint of a text ends *)

Turn(t) == IF t.kind = "left_paren" THEN 1 ELSE IF t.kind = "right_paren" THEN -1 ELSE 0

LEMMA OpenedStep ==
    ASSUME NEW ts, NEW a \in Nat, NEW n \in Nat, a <= n + 1
    PROVE  /\ Opened(ts, a, n) \in Int
           /\ Opened(ts, a, n + 1) = Opened(ts, a, n) + Turn(ts[n + 1])
  <1> DEFINE L(m) == {i \in a..m : ts[i].kind = "left_paren"}
             R(m) == {i \in a..m : ts[i].kind = "right_paren"}
             l == Cardinality(L(n))
             r == Cardinality(R(n))
  <1>1. IsFiniteSet(a..n) /\ n + 1 \notin a..n /\ a..n + 1 = (a..n) \cup {n + 1}
    <2>1. IsFiniteSet(a..n)
      BY FS_Interval
    <2> QED
      BY <2>1
  <1>2. IsFiniteSet(L(n)) /\ IsFiniteSet(R(n)) /\ l \in Nat /\ r \in Nat
    <2>1. L(n) \subseteq a..n /\ R(n) \subseteq a..n
      OBVIOUS
    <2>2. IsFiniteSet(L(n)) /\ IsFiniteSet(R(n))
      BY <1>1, <2>1, FS_Subset
    <2> QED
      BY <2>2, FS_CardinalityType
  <1>3. n + 1 \notin L(n) /\ n + 1 \notin R(n)
    BY <1>1
  <1>4. /\ Cardinality(L(n) \cup {n + 1}) = l + 1
        /\ Cardinality(R(n) \cup {n + 1}) = r + 1
    BY <1>2, <1>3, FS_AddElement
  <1>5. /\ L(n + 1) = IF ts[n + 1].kind = "left_paren" THEN L(n) \cup {n + 1} ELSE L(n)
        /\ R(n + 1) = IF ts[n + 1].kind = "right_paren" THEN R(n) \cup {n + 1} ELSE R(n)
    BY <1>1
  <1>6. /\ Opened(ts, a, n) = l - r
        /\ Opened(ts, a, n + 1) = Cardinality(L(n + 1)) - Cardinality(R(n + 1))
    BY Zenon DEF Opened
  <1> HIDE DEF L, R
  <1>7. l - r \in Int
    BY <1>2
  <1>8. CASE ts[n + 1].kind = "left_paren"
    <2>1. "left_paren" # "right_paren"
      BY Zenon
    <2>2. Cardinality(L(n + 1)) = l + 1 /\ Cardinality(R(n + 1)) = r /\ Turn(ts[n + 1]) = 1
      BY <1>4, <1>5, <1>8, <2>1, Zenon DEF Turn
    <2> HIDE DEF l, r
    <2> QED
      BY <1>2, <1>6, <2>2
  <1>9. CASE ts[n + 1].kind = "right_paren"
    <2>1. "left_paren" # "right_paren"
      BY Zenon
    <2>2. Cardinality(L(n + 1)) = l /\ Cardinality(R(n + 1)) = r + 1 /\ Turn(ts[n + 1]) = -1
      BY <1>4, <1>5, <1>9, <2>1, Zenon DEF Turn
    <2> HIDE DEF l, r
    <2> QED
      BY <1>2, <1>6, <2>2
  <1>10. CASE ts[n + 1].kind # "left_paren" /\ ts[n + 1].kind # "right_paren"
    <2>2. Cardinality(L(n + 1)) = l /\ Cardinality(R(n + 1)) = r /\ Turn(ts[n + 1]) = 0
      BY <1>5, <1>10, Zenon DEF Turn
    <2> HIDE DEF l, r
    <2> QED
      BY <1>2, <1>6, <2>2
  <1>11. Opened(ts, a, n) \in Int
    BY <1>6, <1>7
  <1> QED
    BY <1>8, <1>9, <1>10, <1>11

LEMMA OpenedNone ==
    ASSUME NEW ts, NEW a \in Nat
    PROVE  Opened(ts, a + 1, a) = 0
  <1>1. \A i : i \notin a + 1..a
    OBVIOUS
  <1>2. /\ {n \in a + 1..a : ts[n].kind = "left_paren"} = {}
        /\ {n \in a + 1..a : ts[n].kind = "right_paren"} = {}
    BY <1>1, Zenon
  <1>3. Opened(ts, a + 1, a) = Cardinality({}) - Cardinality({})
    BY <1>2, Zenon DEF Opened
  <1>4. Cardinality({}) = 0
    BY FS_EmptySet
  <1> QED
    BY <1>3, <1>4

\* Counted from one token later
LEMMA OpenedLater ==
    ASSUME NEW ts, NEW a \in Nat
    PROVE  \A n \in Nat : n >= a + 1 =>
              Opened(ts, a + 1, n) = Turn(ts[a + 1]) + Opened(ts, a + 2, n)
  <1> DEFINE F(n) == Opened(ts, a + 1, n)
             G(n) == Opened(ts, a + 2, n)
             o == Turn(ts[a + 1])
             Good(i) == F((a + 1) + i) = o + G((a + 1) + i)
             S == {i \in Nat : Good(i)}
  <1>1. o \in {-1, 0, 1}
    BY Zenon DEF Turn
  <1>2. Good(0)
    <2>1. F(a) = 0 /\ F(a + 1) = F(a) + o
      <3>1. a + 1 <= a + 1
        OBVIOUS
      <3> QED
        BY <3>1, OpenedNone, OpenedStep
    <2>2. G(a + 1) = 0
      <3> DEFINE b == a + 1
      <3>1. b \in Nat /\ b + 1 = a + 2
        OBVIOUS
      <3> HIDE DEF b
      <3>2. Opened(ts, b + 1, b) = 0
        BY <3>1, OpenedNone
      <3> QED
        BY <3>1, <3>2 DEF b
    <2>3. (a + 1) + 0 = a + 1
      OBVIOUS
    <2> HIDE DEF F, G, o
    <2>4. F(a + 1) = o + G(a + 1)
      BY <1>1, <2>1, <2>2
    <2> QED
      BY <2>3, <2>4, Zenon
  <1>3. ASSUME NEW i \in Nat, Good(i) PROVE Good(i + 1)
    <2> DEFINE n == (a + 1) + i
               x == Turn(ts[n + 1])
    <2>1. n \in Nat /\ a + 1 <= n + 1 /\ a + 2 <= n + 1 /\ (a + 1) + (i + 1) = n + 1
          /\ a + 1 \in Nat /\ a + 2 \in Nat
      OBVIOUS
    <2> HIDE DEF n
    <2>2. F(n + 1) = F(n) + x /\ G(n + 1) = G(n) + x /\ F(n) \in Int /\ G(n) \in Int
      BY <2>1, OpenedStep
    <2>3. x \in {-1, 0, 1}
      BY Zenon DEF Turn
    <2>4. F(n) = o + G(n)
      BY <1>3 DEF n
    <2> HIDE DEF F, G, o, x
    <2>5. F(n + 1) = o + G(n + 1)
      BY <1>1, <2>2, <2>3, <2>4
    <2> QED
      BY <2>1, <2>5, Zenon
  <1> HIDE DEF Good
  <1>4. 0 \in S /\ \A i \in Nat : i \in S => i + 1 \in S
    BY <1>2, <1>3
  <1> HIDE DEF S
  <1>5. ASSUME NEW n \in Nat, n >= a + 1 PROVE F(n) = o + G(n)
    <2>1. n - (a + 1) \in Nat /\ (a + 1) + (n - (a + 1)) = n
      BY <1>5
    <2>2. n - (a + 1) \in S
      BY <1>4, <2>1, Upwards
    <2>3. Good(n - (a + 1))
      BY <2>2 DEF S
    <2> HIDE DEF F, G, o
    <2> QED
      BY <2>1, <2>3, Zenon DEF Good
  <1> QED
    BY <1>5

\* hs stand behind the first token.
Within(ts, hs, L) == \A i \in 1..L : ts[1 + i] = hs[i]

\* Counted in a part of the tokens
CountedAlike(ts, hs, a, L) ==
    \A n \in Nat : a <= n /\ n <= L => Opened(ts, a + 2, n + 1) = Opened(hs, a + 1, n)

LEMMA OpenedWithin ==
    ASSUME NEW ts, NEW hs, NEW a \in Nat, NEW L \in Nat, Within(ts, hs, L)
    PROVE  CountedAlike(ts, hs, a, L)
  <1> DEFINE F(n) == Opened(ts, a + 2, n)
             G(n) == Opened(hs, a + 1, n)
             Good(i) == a + i <= L => F((a + i) + 1) = G(a + i)
             S == {i \in Nat : Good(i)}
  <1>1. Good(0)
    <2>1. G(a) = 0
      BY OpenedNone
    <2>2. F(a + 1) = 0
      <3> DEFINE b == a + 1
      <3>1. b \in Nat /\ b + 1 = a + 2
        OBVIOUS
      <3> HIDE DEF b
      <3>2. Opened(ts, b + 1, b) = 0
        BY <3>1, OpenedNone
      <3> QED
        BY <3>1, <3>2 DEF b
    <2>3. a + 0 = a
      OBVIOUS
    <2> QED
      BY <2>1, <2>2, <2>3, Zenon
  <1>2. ASSUME NEW i \in Nat, Good(i) PROVE Good(i + 1)
    <2> DEFINE n == a + i
    <2>1. SUFFICES ASSUME n + 1 <= L PROVE F((n + 1) + 1) = G(n + 1)
      <3>1. a + (i + 1) = n + 1
        OBVIOUS
      <3> QED
        BY <3>1
    <2>2. /\ n \in Nat /\ n <= L /\ n + 1 \in 1..L /\ 1 + (n + 1) = (n + 1) + 1
          /\ a + 1 \in Nat /\ a + 2 \in Nat /\ n + 1 \in Nat
          /\ a + 1 <= n + 1 /\ a + 2 <= (n + 1) + 1
      BY <2>1
    <2>3. F(n + 1) = G(n)
      BY <1>2, <2>2
    <2> HIDE DEF n
    <2>4. ts[(n + 1) + 1] = hs[n + 1]
      BY <2>2 DEF Within
    <2>5. G(n + 1) = G(n) + Turn(hs[n + 1])
      BY <2>2, OpenedStep
    <2>6. F((n + 1) + 1) = F(n + 1) + Turn(ts[(n + 1) + 1])
      <3> DEFINE m == n + 1
      <3>1. m \in Nat /\ a + 2 <= m + 1
        BY <2>2
      <3> HIDE DEF m
      <3>2. Opened(ts, a + 2, m + 1) = Opened(ts, a + 2, m) + Turn(ts[m + 1])
        BY <2>2, <3>1, OpenedStep
      <3> QED
        BY <3>2, Zenon DEF m
    <2> QED
      BY <2>3, <2>4, <2>5, <2>6, Zenon
  <1> HIDE DEF Good
  <1>3. 0 \in S /\ \A i \in Nat : i \in S => i + 1 \in S
    BY <1>1, <1>2
  <1> HIDE DEF S
  <1>4. ASSUME NEW n \in Nat, a <= n, n <= L PROVE F(n + 1) = G(n)
    <2>1. n - a \in Nat /\ a + (n - a) = n
      BY <1>4
    <2>2. n - a \in S
      BY <1>3, <2>1, Upwards
    <2>3. Good(n - a)
      BY <2>2 DEF S
    <2> HIDE DEF F, G
    <2>4. a + (n - a) <= L
      BY <1>4, <2>1
    <2> QED
      BY <2>1, <2>3, <2>4, Zenon DEF Good
  <1> QED
    BY <1>4 DEF CountedAlike

\* Where the planner finds the end of a hint that it can read is the end of the
\* hint that was put into the text.
LEMMA HintEnds ==
    ASSUME NEW ts \in Seq(Token), NEW hs \in Seq(Token), IsHint(hs),
           Within(ts, hs, Len(hs)), HintRead(ts)
    PROVE  HintEnd(ts) + 6 = Len(hs) + 2 /\ Len(hs) + 1 <= Len(ts)
  <1> DEFINE e == HintEnd(ts)
             d == Len(hs) + 1
             F(n) == Opened(ts, 3, n)
             G(n) == Opened(ts, 4, n)
  <1>1. /\ IsKind(ts, 3, "left_paren") /\ IsKind(ts, 4, "left_paren")
        /\ IsKind(ts, e + 1, "comma") /\ IsKind(ts, e + 2, "number")
        /\ IsKind(ts, e + 3, "comma") /\ IsKind(ts, e + 4, "number")
        /\ IsKind(ts, e + 5, "right_paren")
    BY Zenon DEF HintRead
  <1>2. /\ Len(hs) \in Nat /\ 2 \in 1..Len(hs) /\ MatchingParen(hs, 2) = Len(hs)
    <2>1. 2 \in DOMAIN hs /\ MatchingParen(hs, 2) = Len(hs)
      BY Zenon DEF IsHint, IsKind
    <2> QED
      BY <2>1
  <1>3. /\ e \in Nat /\ e <= Len(ts) + 1 /\ Len(ts) \in Nat
        /\ e = Len(ts) + 1 \/ (e \in 4..Len(ts) /\ G(e) = 0)
        /\ \A n \in 4..Len(ts) : n < e => G(n) # 0
    <2>1. 4 \in Nat /\ Len(ts) \in Nat
      OBVIOUS
    <2> QED
      BY <2>1, MatchingIs, Zenon DEF HintEnd
  <1> HIDE DEF e
  <1>4. e + 5 <= Len(ts) /\ e >= 4 /\ G(e) = 0
    <2>1. e + 5 \in DOMAIN ts
      BY <1>1, Zenon DEF IsKind
    <2>2. e + 5 <= Len(ts)
      BY <2>1
    <2> QED
      BY <1>3, <2>2
  <1>5. /\ Turn(ts[3]) = 1 /\ Turn(ts[4]) = 1
        /\ Turn(ts[e + 1]) = 0 /\ Turn(ts[e + 2]) = 0
        /\ Turn(ts[e + 3]) = 0 /\ Turn(ts[e + 4]) = 0
        /\ Turn(ts[e + 5]) = -1
    <2>1. /\ "comma" # "left_paren" /\ "comma" # "right_paren" /\ "number" # "left_paren"
          /\ "number" # "right_paren" /\ "right_paren" # "left_paren"
      BY Zenon
    <2> QED
      BY <1>1, <2>1, Zenon DEF IsKind, Turn
  \* From the second token of the hint on, the counts are those in the text.
  <1>6. \A n \in 1..Len(hs) : F(n + 1) = Opened(hs, 2, n)
    <2> DEFINE a == 1
               l == Len(hs)
    <2>1. /\ a \in Nat /\ a + 1 = 2 /\ a + 2 = 3
          /\ l \in Nat /\ Within(ts, hs, l)
      BY <1>2
    <2> HIDE DEF a, l
    <2>2. CountedAlike(ts, hs, a, l)
      BY <2>1, OpenedWithin
    <2>3. \A n \in Nat : a <= n /\ n <= Len(hs) => F(n + 1) = Opened(hs, 2, n)
      BY <2>1, <2>2 DEF l, CountedAlike
    <2> HIDE DEF F
    <2> QED
      BY <1>2, <2>3 DEF a
  <1>7. /\ d \in Nat /\ d >= 3 /\ F(d) = 0
        /\ \A n \in Nat : n >= 3 /\ n < d => F(n) # 0
    <2>1. /\ Len(hs) \in 2..Len(hs) /\ Opened(hs, 2, Len(hs)) = 0
          /\ \A n \in 2..Len(hs) : n < Len(hs) => Opened(hs, 2, n) # 0
      <3> DEFINE f == MatchingParen(hs, 2)
      <3>1. /\ f = Len(hs) + 1 \/ (f \in 2..Len(hs) /\ Opened(hs, 2, f) = 0)
            /\ \A n \in 2..Len(hs) : n < f => Opened(hs, 2, n) # 0
        BY MatchingIs
      <3>2. f = Len(hs) /\ Len(hs) # Len(hs) + 1
        BY <1>2
      <3> QED
        BY <3>1, <3>2, Zenon
    <2> HIDE DEF F
    <2>2. F(d) = 0
      BY <1>2, <1>6, <2>1
    <2>3. ASSUME NEW n \in Nat, n >= 3, n < d PROVE F(n) # 0
      <3>1. n - 1 \in 2..Len(hs) /\ n - 1 \in 1..Len(hs) /\ n - 1 < Len(hs) /\ (n - 1) + 1 = n
        BY <1>2, <2>3
      <3> QED
        BY <1>6, <2>1, <3>1
    <2> QED
      BY <1>2, <2>2, <2>3
  <1>8. \A n \in Nat : n >= 3 => F(n) = 1 + G(n)
    <2> DEFINE a == 2
    <2>1. a \in Nat /\ a + 1 = 3 /\ a + 2 = 4
      OBVIOUS
    <2> HIDE DEF a
    <2>2. \A n \in Nat : n >= a + 1 =>
              Opened(ts, a + 1, n) = Turn(ts[a + 1]) + Opened(ts, a + 2, n)
      BY <2>1, OpenedLater
    <2> QED
      BY <1>5, <2>1, <2>2, Zenon
  <1>9. /\ G(3) = 0
        /\ \A n \in Nat : n >= 3 => G(n) \in Int /\ G(n + 1) = G(n) + Turn(ts[n + 1])
    <2>1. G(3) = 0
      <3> DEFINE a == 3
      <3>1. a \in Nat /\ a + 1 = 4
        OBVIOUS
      <3> HIDE DEF a
      <3>2. Opened(ts, a + 1, a) = 0
        BY <3>1, OpenedNone
      <3> QED
        BY <3>1, <3>2 DEF a
    <2>2. ASSUME NEW n \in Nat, n >= 3
          PROVE  G(n) \in Int /\ G(n + 1) = G(n) + Turn(ts[n + 1])
      <3>1. 4 <= n + 1 /\ 4 \in Nat
        BY <2>2
      <3> QED
        BY <3>1, OpenedStep
    <2> QED
      BY <2>1, <2>2
  <1> HIDE DEF F, G, d
  <1>10. \A n \in Nat : n >= 4 /\ n < e => G(n) >= 1
    <2> DEFINE Good(i) == i + 4 < e => G(i + 4) >= 1
               S == {i \in Nat : Good(i)}
    <2>1. Good(0)
      <3>1. G(3 + 1) = G(3) + Turn(ts[3 + 1]) /\ 3 + 1 = 4 /\ 0 + 4 = 4
        BY <1>9
      <3>2. G(4) = 1
        BY <1>5, <1>9, <3>1
      <3> QED
        BY <3>1, <3>2
    <2>2. ASSUME NEW i \in Nat, Good(i) PROVE Good(i + 1)
      <3> DEFINE n == i + 4
                 x == Turn(ts[n + 1])
      <3>1. SUFFICES ASSUME n + 1 < e PROVE G(n + 1) >= 1
        <4>1. (i + 1) + 4 = n + 1
          OBVIOUS
        <4> QED
          BY <4>1
      <3>2. n \in Nat /\ n >= 3 /\ n + 1 \in 4..Len(ts) /\ n < e
        BY <1>3, <1>4, <3>1
      <3>3. G(n) >= 1
        BY <2>2, <3>2
      <3> HIDE DEF n
      <3>4. G(n) \in Int /\ G(n + 1) = G(n) + x /\ G(n + 1) # 0
        BY <1>3, <1>9, <3>1, <3>2
      <3>5. x \in {-1, 0, 1}
        BY Zenon DEF Turn
      <3> HIDE DEF x
      <3> QED
        BY <3>3, <3>4, <3>5
    <2> HIDE DEF Good
    <2>3. 0 \in S /\ \A i \in Nat : i \in S => i + 1 \in S
      BY <2>1, <2>2
    <2> HIDE DEF S
    <2>4. ASSUME NEW n \in Nat, n >= 4, n < e PROVE G(n) >= 1
      <3>1. n - 4 \in Nat /\ (n - 4) + 4 = n
        BY <2>4
      <3>2. n - 4 \in S
        BY <2>3, <3>1, Upwards
      <3>3. Good(n - 4)
        BY <3>2 DEF S
      <3>4. (n - 4) + 4 < e => G((n - 4) + 4) >= 1
        BY <3>3, Zenon DEF Good
      <3> QED
        BY <2>4, <3>1, <3>4
    <2> QED
      BY <2>4
  \* Behind the columns are two numbers, and then the hint is closed.
  <1>11. G(e + 1) = 0 /\ G(e + 2) = 0 /\ G(e + 3) = 0 /\ G(e + 4) = 0 /\ G(e + 5) = -1
    <2>1. /\ (e + 1) + 1 = e + 2 /\ (e + 2) + 1 = e + 3 /\ (e + 3) + 1 = e + 4
          /\ (e + 4) + 1 = e + 5
          /\ e + 1 \in Nat /\ e + 2 \in Nat /\ e + 3 \in Nat /\ e + 4 \in Nat
          /\ e >= 3 /\ e + 1 >= 3 /\ e + 2 >= 3 /\ e + 3 >= 3 /\ e + 4 >= 3
      BY <1>3, <1>4
    <2>2. G(e + 1) = G(e) + Turn(ts[e + 1])
      BY <1>3, <1>9, <2>1
    <2>3. G(e + 2) = G(e + 1) + Turn(ts[e + 2])
      BY <1>9, <2>1
    <2>4. G(e + 3) = G(e + 2) + Turn(ts[e + 3])
      BY <1>9, <2>1
    <2>5. G(e + 4) = G(e + 3) + Turn(ts[e + 4])
      BY <1>9, <2>1
    <2>6. G(e + 5) = G(e + 4) + Turn(ts[e + 5])
      BY <1>9, <2>1
    <2> QED
      BY ONLY <1>4, <1>5, <2>2, <2>3, <2>4, <2>5, <2>6
  <1>12. d = e + 5
    <2>1. F(e + 5) = 0 /\ e + 5 \in Nat /\ e + 5 >= 3
      BY <1>3, <1>8, <1>11
    <2>2. ~(e + 5 < d)
      BY <1>7, <2>1
    <2>3. ASSUME d < e + 5 PROVE FALSE
      <3>1. 1 + G(d) = 0 /\ G(d) \in Int
        BY <1>7, <1>8, <1>9
      <3>2. G(d) = -1
        BY <3>1
      <3>3. \/ d = 3 \/ (d >= 4 /\ d < e)
            \/ d = e \/ d = e + 1 \/ d = e + 2 \/ d = e + 3 \/ d = e + 4
        BY <1>3, <1>4, <1>7, <2>3
      <3>4. d >= 4 /\ d < e => G(d) >= 1
        BY <1>7, <1>10
      <3>5. ~(-1 >= 1) /\ -1 # 0
        OBVIOUS
      <3> QED
        BY <1>4, <1>9, <1>11, <3>2, <3>3, <3>4, <3>5
    <2> QED
      BY <1>3, <1>7, <2>2, <2>3
  <1>13. Len(hs) + 1 = e + 5
    BY <1>12 DEF d
  <1>14. e + 6 = Len(hs) + 2 /\ Len(hs) + 1 <= Len(ts)
    BY <1>2, <1>3, <1>4, <1>13
  <1> QED
    BY <1>14 DEF e

-----------------------------------------------------------------------------
(* A text without its hint *)

LEMMA UnhintedIs ==
    ASSUME NEW t \in Seq(Token), NEW h \in Seq(Token), Within(t, h, Len(h)),
           Len(h) + 1 <= Len(t)
    PROVE  Hinted(t, Unhinted(t, Len(h) + 2), h)
  <1> DEFINE k == Len(h) + 2
             a == <<t[1]>>
             b == SubSeq(t, k, Len(t))
             u == a \o b
  <1>1. /\ Len(h) \in Nat /\ Len(t) \in Nat /\ k \in 2..Len(t) + 1 /\ t[1] \in Token
        /\ t \in Seq(Token)
    OBVIOUS
  <1>2. a \in Seq(Token) /\ Len(a) = 1 /\ a[1] = t[1]
    BY <1>1
  <1>3. /\ b \in Seq(Token) /\ Len(b) = Len(t) - Len(h) - 1
        /\ \A i \in 1..Len(t) - Len(h) - 1 : b[i] = t[Len(h) + 1 + i]
    <2> HIDE DEF k
    <2>1. /\ k \in Int /\ Len(t) \in Int /\ \A i \in k..Len(t) : t[i] \in Token
          /\ Len(t) - k + 1 = Len(t) - Len(h) - 1 /\ Len(t) - Len(h) - 1 \in Nat
          /\ ~(k <= Len(t)) => Len(t) - Len(h) - 1 = 0
      BY <1>1 DEF k
    <2>2. /\ b \in Seq(Token) /\ Len(b) = IF k <= Len(t) THEN Len(t) - k + 1 ELSE 0
          /\ \A i \in 1..Len(t) - k + 1 : b[i] = t[k + i - 1]
      BY <2>1, SubSeqProperties
    <2> HIDE DEF b
    <2>3. \A i \in 1..Len(t) - Len(h) - 1 : k + i - 1 = Len(h) + 1 + i
      BY <1>1 DEF k
    <2> QED
      BY <2>1, <2>2, <2>3
  <1>4. Unhinted(t, k) = u
    BY Zenon DEF Unhinted
  <1> HIDE DEF a, b, k
  <1>5. /\ u \in Seq(Token) /\ Len(u) = Len(a) + Len(b)
        /\ \A i \in 1..Len(a) + Len(b) : u[i] = IF i <= Len(a) THEN a[i] ELSE b[i - Len(a)]
    BY <1>2, <1>3, ConcatProperties
  <1> HIDE DEF u
  <1>6. u # <<>> /\ Len(t) = Len(u) + Len(h) /\ t[1] = u[1]
    BY <1>1, <1>2, <1>3, <1>5
  <1>7. ASSUME NEW i \in 2..Len(u) PROVE t[Len(h) + i] = u[i]
    <2>1. /\ i \in 1..Len(a) + Len(b) /\ ~(i <= Len(a)) /\ i - Len(a) = i - 1
          /\ i - 1 \in 1..Len(t) - Len(h) - 1 /\ Len(h) + 1 + (i - 1) = Len(h) + i
      BY <1>1, <1>2, <1>3, <1>5
    <2>2. u[i] = b[i - 1]
      BY <1>5, <2>1
    <2>3. b[i - 1] = t[Len(h) + i]
      BY <1>3, <2>1
    <2> QED
      BY <2>2, <2>3
  <1>8. Hinted(t, u, h)
    BY <1>1, <1>5, <1>6, <1>7 DEF Hinted, Within
  <1> QED
    BY <1>4, <1>8 DEF k

LEMMA HintedUnique ==
    ASSUME NEW w, NEW m, NEW u, NEW h, Hinted(w, m, h), Hinted(w, u, h)
    PROVE  m = u
  <1>1. /\ m \in Seq(Token) /\ u \in Seq(Token) /\ Len(m) \in Nat /\ Len(u) \in Nat
        /\ Len(h) \in Nat /\ Len(w) = Len(m) + Len(h) /\ Len(w) = Len(u) + Len(h)
        /\ w[1] = m[1] /\ w[1] = u[1]
        /\ \A i \in 2..Len(m) : w[Len(h) + i] = m[i]
        /\ \A i \in 2..Len(u) : w[Len(h) + i] = u[i]
    BY DEF Hinted
  <1>2. Len(m) = Len(u)
    BY <1>1
  <1>3. ASSUME NEW i \in 1..Len(m) PROVE m[i] = u[i]
    <2>1. CASE i = 1
      BY <1>1, <2>1
    <2>2. CASE i # 1
      <3>1. i \in 2..Len(m) /\ i \in 2..Len(u)
        BY <1>1, <1>2, <2>2
      <3> QED
        BY <1>1, <3>1
    <2> QED
      BY <2>1, <2>2
  <1> QED
    BY <1>1, <1>2, <1>3, SeqEqual

LEMMA HintedJoins ==
    ASSUME NEW a, NEW t, NEW c, Joins(c, a, t),
           NEW x, NEW y, NEW h, Hinted(a, x, h), Hinted(c, y, h)
    PROVE  Joins(y, x, t)
  <1>1. /\ y \in Seq(Token) /\ x \in Seq(Token) /\ t \in Seq(Token)
        /\ Len(a) \in Nat /\ Len(c) \in Nat /\ Len(t) \in Nat /\ Len(h) \in Nat
        /\ Len(x) \in Nat /\ Len(y) \in Nat /\ Len(x) >= 1
        /\ Len(c) = Len(a) + 1 + Len(t)
        /\ Len(a) = Len(x) + Len(h) /\ Len(c) = Len(y) + Len(h)
    <2>1. /\ y \in Seq(Token) /\ x \in Seq(Token) /\ t \in Seq(Token) /\ h \in Seq(Token)
          /\ a \in Seq(Token) /\ c \in Seq(Token) /\ x # <<>>
          /\ Len(c) = Len(a) + 1 + Len(t)
          /\ Len(a) = Len(x) + Len(h) /\ Len(c) = Len(y) + Len(h)
      BY Zenon DEF Joins, Hinted
    <2>2. \A q \in Seq(Token) : Len(q) \in Nat /\ (q # <<>> => Len(q) >= 1)
      OBVIOUS
    <2> QED
      BY <2>1, <2>2, Zenon
  <1>2. /\ \A n \in 1..Len(a) : c[n] = a[n]
        /\ c[Len(a) + 1] = Semi
        /\ \A n \in 1..Len(t) : c[Len(a) + 1 + n] = t[n]
    BY DEF Joins
  <1>3. /\ a[1] = x[1] /\ c[1] = y[1]
        /\ \A i \in 2..Len(x) : a[Len(h) + i] = x[i]
        /\ \A i \in 2..Len(y) : c[Len(h) + i] = y[i]
    BY DEF Hinted
  <1>4. Len(y) = Len(x) + 1 + Len(t)
    BY <1>1
  <1>5. ASSUME NEW n \in 1..Len(x) PROVE y[n] = x[n]
    <2>1. CASE n = 1
      <3>1. 1 \in 1..Len(a)
        BY <1>1
      <3> QED
        BY <1>2, <1>3, <2>1, <3>1
    <2>2. CASE n # 1
      <3>1. n \in 2..Len(x) /\ n \in 2..Len(y) /\ Len(h) + n \in 1..Len(a)
        BY <1>1, <1>4, <2>2
      <3> QED
        BY <1>2, <1>3, <3>1
    <2> QED
      BY <2>1, <2>2
  <1>6. y[Len(x) + 1] = Semi
    <2>1. Len(x) + 1 \in 2..Len(y) /\ Len(h) + (Len(x) + 1) = Len(a) + 1
      BY <1>1, <1>4
    <2> QED
      BY <1>2, <1>3, <2>1
  <1>7. ASSUME NEW n \in 1..Len(t) PROVE y[Len(x) + 1 + n] = t[n]
    <2>1. /\ Len(x) + 1 + n \in 2..Len(y)
          /\ Len(h) + (Len(x) + 1 + n) = Len(a) + 1 + n
      BY <1>1, <1>4
    <2>2. c[Len(a) + 1 + n] = t[n]
      BY <1>2
    <2>3. c[Len(h) + (Len(x) + 1 + n)] = y[Len(x) + 1 + n]
      BY <1>3, <2>1, Zenon
    <2> QED
      BY <2>1, <2>2, <2>3, Zenon
  <1>8. c \in Seq(Token) /\ a \in Seq(Token)
    BY DEF Joins
  <1> QED
    BY <1>1, <1>4, <1>5, <1>6, <1>7, <1>8 DEF Joins

\* c begins with the statement t, whole.
Begins(c, t) ==
    /\ c \in Seq(Token) /\ t \in Seq(Token) /\ Len(t) <= Len(c)
    /\ \A i \in 1..Len(t) : c[i] = t[i]
    /\ Len(c) > Len(t) => c[Len(t) + 1] = Semi

LEMMA BeginsJoined ==
    ASSUME NEW a, NEW t, NEW c, NEW w, Joins(c, a, t), Begins(a, w)
    PROVE  Begins(c, w)
  <1>1. /\ a \in Seq(Token) /\ t \in Seq(Token) /\ c \in Seq(Token) /\ w \in Seq(Token)
        /\ Len(c) = Len(a) + 1 + Len(t) /\ Len(w) <= Len(a)
    BY Zenon DEF Joins, Begins
  <1>2. \A q \in Seq(Token) : Len(q) \in Nat
    OBVIOUS
  <1>3. Len(a) \in Nat /\ Len(t) \in Nat /\ Len(c) \in Nat /\ Len(w) \in Nat
    BY <1>1, <1>2, Zenon
  <1>4. /\ \A n \in 1..Len(a) : c[n] = a[n]
        /\ c[Len(a) + 1] = Semi
        /\ \A i \in 1..Len(w) : a[i] = w[i]
        /\ Len(a) > Len(w) => a[Len(w) + 1] = Semi
    BY Zenon DEF Joins, Begins
  <1>5. \A i \in 1..Len(w) : c[i] = w[i]
    BY <1>1, <1>3, <1>4
  <1>6. c[Len(w) + 1] = Semi
    <2>1. CASE Len(a) > Len(w)
      <3>1. Len(w) + 1 \in 1..Len(a)
        BY <1>3, <2>1
      <3> QED
        BY <1>4, <2>1, <3>1
    <2>2. CASE ~(Len(a) > Len(w))
      <3>1. Len(a) = Len(w)
        BY <1>1, <1>3, <2>2
      <3> QED
        BY <1>4, <3>1
    <2> QED
      BY <2>1, <2>2
  <1>7. Len(w) <= Len(c)
    BY <1>1, <1>3
  <1> QED
    BY <1>1, <1>5, <1>6, <1>7 DEF Begins

LEMMA ScriptBegins ==
    ASSUME NEW ws, AreStatements(ws), NEW ts, Accumulates(ts, ws)
    PROVE  \A n \in 1..Len(ws) : Begins(ts[n], ws[1])
  <1> DEFINE Good(n) == n + 1 <= Len(ws) => Begins(ts[n + 1], ws[1])
             S == {n \in Nat : Good(n)}
  <1>1. Len(ws) \in Nat /\ Len(ws) >= 1 /\ ws[1] \in Seq(Token)
    BY DEF AreStatements
  <1>2. Good(0)
    <2>1. ts[0 + 1] = ws[1]
      BY DEF Accumulates
    <2>2. Begins(ws[1], ws[1])
      <3> DEFINE w == ws[1]
      <3>1. w \in Seq(Token) /\ Len(w) \in Nat
        BY <1>1
      <3> HIDE DEF w
      <3>2. Begins(w, w)
        BY <3>1 DEF Begins
      <3> QED
        BY <3>2 DEF w
    <2> QED
      BY <2>1, <2>2
  <1>3. ASSUME NEW n \in Nat, Good(n) PROVE Good(n + 1)
    <2> DEFINE m == n + 1
    <2>1. SUFFICES ASSUME m + 1 <= Len(ws) PROVE Begins(ts[m + 1], ws[1])
      OBVIOUS
    <2>2. m <= Len(ws) /\ m + 1 \in 2..Len(ws) /\ (m + 1) - 1 = m
      BY <1>1, <2>1
    <2>3. Begins(ts[m], ws[1])
      BY <1>3, <2>2
    <2> HIDE DEF m
    <2>4. Joins(ts[m + 1], ts[m], ws[m + 1])
      BY <2>2 DEF Accumulates
    <2> QED
      BY <2>3, <2>4, BeginsJoined
  <1> HIDE DEF Good
  <1>4. 0 \in S /\ \A n \in Nat : n \in S => n + 1 \in S
    BY <1>2, <1>3
  <1> HIDE DEF S
  <1>5. ASSUME NEW n \in 1..Len(ws) PROVE Begins(ts[n], ws[1])
    <2>1. n - 1 \in Nat /\ (n - 1) + 1 = n /\ n <= Len(ws)
      BY <1>1
    <2>2. n - 1 \in S
      BY <1>4, <2>1, Upwards
    <2>3. Good(n - 1)
      BY <2>2 DEF S
    <2> QED
      BY <2>1, <2>3 DEF Good
  <1> QED
    BY <1>5

\* Of a script without calls, the text has a hint only where there was one.
LEMMA FirstHinted ==
    ASSUME NEW s, IsScript(s), Len(s) # 0, Calls(AsMeant(s)[1]) = {},
           HintCut(Tokenize(TextOf(s)))
    PROVE  s[1].hint # <<>>
  <1> DEFINE T == Tokenize(TextOf(s))
             m == AsMeant(s)[1]
  <1>1. PICK ts : Accumulates(ts, AsWritten(s)) /\ ts[Len(s)] = T
    BY ScriptText
  <1>2. Len(s) \in Nat /\ Len(s) >= 1 /\ IsStatement(s[1]) /\ 1 \in 1..Len(s)
    BY DEF IsScript
  <1>3. AreStatements(AsWritten(s)) /\ Len(AsWritten(s)) = Len(s)
    BY ScriptStatements
  <1>4. Begins(T, AsWritten(s)[1])
    <2>1. Len(s) \in 1..Len(AsWritten(s))
      BY <1>2, <1>3
    <2> QED
      BY <1>1, <1>3, <2>1, ScriptBegins
  <1>5. ASSUME s[1].hint = <<>> PROVE FALSE
    <2>1. AsWritten(s)[1] = m
      <3>1. Tokenize(Written(s[1])) = Tokenize(s[1].meant)
        BY <1>2, <1>5, StatementIs
      <3> QED
        BY <1>2, <3>1 DEF AsWritten, AsMeant
    <2>2. /\ T[1].kind = "identifier" /\ T[2].kind = "identifier" /\ T[2].text = "approx_hint"
          /\ T[3].kind = "left_paren" /\ 3 \in DOMAIN T
      BY Zenon DEF HintCut, HintRead, IsWord, IsKind
    <2>3. Begins(T, m) /\ m # <<>>
      BY <1>2, <1>3, <1>4, <2>1 DEF AreStatements
    <2>4. Calls(m) = {}
      OBVIOUS
    <2> HIDE DEF T, m
    <2>5. /\ T \in Seq(Token) /\ m \in Seq(Token) /\ Len(m) \in Nat /\ Len(T) \in Nat
          /\ Len(m) >= 1 /\ DOMAIN m = 1..Len(m) /\ Len(T) >= 3
          /\ \A i \in 1..Len(m) : T[i] = m[i]
          /\ Len(T) > Len(m) => T[Len(m) + 1] = Semi
      BY <2>2, <2>3 DEF Begins
    <2>6. Semi.kind # "identifier" /\ Semi.kind # "left_paren"
      <3>1. Semi.kind = "other"
        BY SemiIs
      <3> QED
        BY <3>1, Zenon
    <2>7. Len(m) >= 3
      <3>1. ASSUME Len(m) = 1 \/ Len(m) = 2 PROVE FALSE
        <4>1. T[2] = Semi \/ T[3] = Semi
          BY <2>5, <3>1
        <4> QED
          BY <2>2, <2>6, <4>1
      <3> QED
        BY <2>5, <3>1
    <2>8. /\ 1 \in DOMAIN m /\ 2 \in DOMAIN m /\ 3 \in DOMAIN m
          /\ m[1] = T[1] /\ m[2] = T[2] /\ m[3] = T[3] /\ 2 + 1 = 3 /\ 2 - 1 = 1
      BY <2>5, <2>7
    <2>9. IsKind(m, 3, "left_paren") /\ ~IsKind(m, 1, "dot")
      <3>1. "identifier" # "dot"
        BY Zenon
      <3> QED
        BY <2>2, <2>8, <3>1, Zenon DEF IsKind
    <2>10. "approx_hint" \in ApproxName
      BY Zenon DEF ApproxName
    <2>11. 2 \in Calls(m)
      BY <2>2, <2>8, <2>9, <2>10, Zenon DEF Calls
    <2> QED
      BY <2>4, <2>11
  <1> QED
    BY <1>5

\* The text of a script that is run without the first hint
LEMMA HintDropped ==
    ASSUME NEW s, IsScript(s), Len(s) # 0, s[1].hint # <<>>,
           HintCut(Tokenize(TextOf(s)))
    PROVE  Parted(Unhinted(Tokenize(TextOf(s)), HintEnd(Tokenize(TextOf(s))) + 6))
               = [AsWritten(s) EXCEPT ![1] = AsMeant(s)[1]]
  <1> DEFINE T == Tokenize(TextOf(s))
             ws == AsWritten(s)
             m == AsMeant(s)[1]
             h == Tokenize(s[1].hint)
             vs == [ws EXCEPT ![1] = m]
             k == Len(h) + 2
  <1>1. PICK ts : Accumulates(ts, ws) /\ ts[Len(s)] = T
    BY ScriptText
  <1>2. Len(s) \in Nat /\ Len(s) >= 1 /\ IsStatement(s[1]) /\ 1 \in 1..Len(s)
        /\ Len(s) \in 1..Len(s)
    BY DEF IsScript
  <1>3. /\ AreStatements(ws) /\ Len(ws) = Len(s)
        /\ AreStatements(AsMeant(s)) /\ Len(AsMeant(s)) = Len(s)
    BY ScriptStatements
  <1>4. IsHint(h) /\ Hinted(ws[1], m, h)
    <2>1. ws[1] = Tokenize(Written(s[1])) /\ m = Tokenize(s[1].meant)
      BY <1>2 DEF AsWritten, AsMeant
    <2> HIDE DEF ws, m
    <2> QED
      BY <1>2, <2>1, StatementIs
  <1>5. HintCut(T)
    OBVIOUS
  <1> DEFINE us == [n \in 1..Len(s) |-> Unhinted(ts[n], k)]
  <1>6. m \in Seq(Token) /\ m # <<>> /\ NoSemicolon(m)
    BY <1>2, <1>3 DEF AreStatements
  <1> HIDE DEF T, ws, m, h
  <1>7. ASSUME NEW n \in 1..Len(s)
        PROVE  /\ ts[n] \in Seq(Token) /\ Within(ts[n], h, Len(h)) /\ Len(h) + 1 <= Len(ts[n])
               /\ Hinted(ts[n], Unhinted(ts[n], k), h)
    <2> DEFINE t == ts[n]
               w == ws[1]
    <2>1. Begins(t, w)
      BY <1>1, <1>3, ScriptBegins
    <2>2. Hinted(w, m, h)
      BY <1>4
    <2> HIDE DEF t, w, k
    <2>3. /\ t \in Seq(Token) /\ w \in Seq(Token) /\ h \in Seq(Token) /\ m \in Seq(Token)
          /\ m # <<>> /\ Len(w) = Len(m) + Len(h) /\ Len(w) <= Len(t)
      BY <2>1, <2>2, Zenon DEF Begins, Hinted
    <2>4. \A q \in Seq(Token) : Len(q) \in Nat /\ (q # <<>> => Len(q) >= 1)
      OBVIOUS
    <2>5. /\ Len(t) \in Nat /\ Len(w) \in Nat /\ Len(h) \in Nat /\ Len(m) \in Nat
          /\ Len(m) >= 1
      BY <2>3, <2>4, Zenon
    <2>6. Len(h) + 1 <= Len(w) /\ Len(h) + 1 <= Len(t)
      BY <2>3, <2>5
    <2>7. Within(t, h, Len(h))
      <3>1. ASSUME NEW i \in 1..Len(h) PROVE t[1 + i] = h[i]
        <4>1. 1 + i \in 1..Len(w)
          BY <2>5, <2>6
        <4>2. t[1 + i] = w[1 + i]
          BY <2>1, <4>1, Zenon DEF Begins
        <4>3. w[1 + i] = h[i]
          BY <2>2, Zenon DEF Hinted
        <4> QED
          BY <4>2, <4>3
      <3> QED
        BY <3>1 DEF Within
    <2>8. Hinted(t, Unhinted(t, k), h)
      BY <2>3, <2>6, <2>7, UnhintedIs DEF k
    <2> QED
      BY <2>3, <2>6, <2>7, <2>8 DEF t
  <1>8. HintEnd(T) + 6 = k
    <2>1. T \in Seq(Token) /\ Within(T, h, Len(h))
      BY <1>1, <1>2, <1>7
    <2>2. h \in Seq(Token) /\ HintRead(T)
      BY <1>4, <1>5, Zenon DEF Hinted, HintCut
    <2> QED
      BY <1>4, <2>1, <2>2, HintEnds
  <1> HIDE DEF k
  <1>9. /\ vs \in Seq(Seq(Token)) /\ Len(vs) = Len(s) /\ vs[1] = m
        /\ \A n \in 2..Len(s) : vs[n] = ws[n]
    <2> DEFINE q == Seq(Token)
    <2>1. ws \in Seq(q) /\ m \in q /\ Len(ws) = Len(s) /\ 1 \in 1..Len(s)
      BY <1>2, <1>3, <1>6 DEF AreStatements
    <2> HIDE DEF q
    <2>2. vs \in Seq(q) /\ Len(vs) = Len(s) /\ vs[1] = m
      BY <2>1
    <2>3. \A n \in 2..Len(s) : vs[n] = ws[n]
      BY <2>1
    <2> QED
      BY <2>2, <2>3 DEF q
  <1> HIDE DEF vs
  <1>10. AreStatements(vs)
    <2>1. ASSUME NEW n \in 1..Len(vs) PROVE vs[n] # <<>> /\ NoSemicolon(vs[n])
      <3>1. CASE n = 1
        BY <1>6, <1>9, <3>1
      <3>2. CASE n # 1
        <4>1. n \in 2..Len(s) /\ n \in 1..Len(ws)
          BY <1>2, <1>3, <1>9, <3>2
        <4> QED
          BY <1>3, <1>9, <4>1 DEF AreStatements
      <3> QED
        BY <3>1, <3>2
    <2>2. vs # <<>>
      BY <1>2, <1>9
    <2> QED
      BY <1>9, <2>1, <2>2 DEF AreStatements
  <1>11. Accumulates(us, vs)
    <2>1. us[1] = vs[1]
      <3>1. ts[1] = ws[1]
        BY <1>1 DEF Accumulates
      <3>2. Hinted(ws[1], us[1], h)
        BY <1>2, <1>7, <3>1
      <3>3. m = us[1]
        BY <1>4, <3>2, HintedUnique
      <3> QED
        BY <1>9, <3>3
    <2>2. ASSUME NEW n \in 2..Len(vs) PROVE Joins(us[n], us[n - 1], vs[n])
      <3>1. n \in 1..Len(s) /\ n - 1 \in 1..Len(s) /\ n \in 2..Len(s) /\ n \in 2..Len(ws)
        BY <1>2, <1>3, <1>9
      <3>2. Joins(ts[n], ts[n - 1], ws[n])
        BY <1>1, <3>1 DEF Accumulates
      <3>3. Hinted(ts[n], us[n], h) /\ Hinted(ts[n - 1], us[n - 1], h)
        BY <1>7, <3>1
      <3> HIDE DEF us
      <3>4. Joins(us[n], us[n - 1], ws[n])
        BY <3>2, <3>3, HintedJoins
      <3> QED
        BY <1>9, <3>1, <3>4
    <2> HIDE DEF us
    <2> QED
      BY <2>1, <2>2 DEF Accumulates
  <1>12. us[Len(vs)] = Unhinted(T, k)
    BY <1>1, <1>2, <1>9
  <1> HIDE DEF us
  <1>13. Parted(us[Len(vs)]) = vs
    BY <1>10, <1>11, PartedAll
  <1>14. Parted(Unhinted(T, HintEnd(T) + 6)) = vs
    BY <1>8, <1>12, <1>13, Zenon
  <1> QED
    BY <1>14 DEF T, vs, ws, m

-----------------------------------------------------------------------------
(* Nothing is dropped *)

\* DuckDB does not run a statement with its hint.
LEMMA UnderstoodMeans ==
    ASSUME NEW s, IsScript(s), NEW n \in 1..Len(s), Understood(AsWritten(s)[n])
    PROVE  AsWritten(s)[n] = AsMeant(s)[n] /\ s[n].hint = <<>>
  <1> DEFINE w == Tokenize(Written(s[n]))
             m == Tokenize(s[n].meant)
             h == Tokenize(s[n].hint)
  <1>1. IsStatement(s[n])
    BY DEF IsScript
  <1>2. AsWritten(s)[n] = w /\ AsMeant(s)[n] = m
    BY DEF AsWritten, AsMeant
  <1>3. /\ s[n].hint = <<>> => w = m
        /\ s[n].hint # <<>> => m[1] = Insert /\ IsHint(h) /\ Hinted(w, m, h)
    BY <1>1, StatementIs
  <1> HIDE DEF w, m, h
  <1>4. ASSUME s[n].hint # <<>> PROVE FALSE
    <2>1. IsWord(w, 2, "approx_hint") /\ IsKind(w, 3, "left_paren")
      BY <1>3, <1>4, HintedFirst
    <2>2. /\ 2 \in DOMAIN w /\ w[2].kind = "identifier" /\ w[2].text = "approx_hint"
          /\ 2 + 1 = 3
      BY <2>1 DEF IsWord, IsKind
    <2>3. "approx_hint" \in ApproxName
      BY Zenon DEF ApproxName
    <2>4. Understood(w)
      BY <1>2
    <2> QED
      BY <2>1, <2>2, <2>3, <2>4, Zenon DEF Understood
  <1> QED
    BY <1>2, <1>3, <1>4

LEMMA RanNothingDropped == Ran => NothingDropped
  <1> SUFFICES ASSUME Ran, Returned, rc = "ok", Exactly
               PROVE  done = [n \in DOMAIN script |-> Tokenize(script[n].meant)]
    BY DEF NothingDropped
  <1> DEFINE s == script
             T == Tokenize(TextOf(s))
             ws == AsWritten(s)
             ms == AsMeant(s)
  <1>1. /\ IsScript(s) /\ plan = PlanOf(T) /\ ~Approximate /\ Ended
        /\ \A n \in 1..Len(s) : Calls(ms[n]) = {}
    BY ExactEnd
  <1>2. /\ done = Parted(plan.sql) /\ \A n \in DOMAIN done : Understood(done[n])
        /\ \/ plan.sql = T
           \/ HintCut(T) /\ plan.sql = Unhinted(T, HintEnd(T) + 6)
    BY <1>1, PlanFacts DEF Ended, Approximate
  <1>3. Len(s) \in Nat /\ DOMAIN s = 1..Len(s)
    BY <1>1 DEF IsScript
  <1>4. ms = [n \in DOMAIN s |-> Tokenize(s[n].meant)]
    BY <1>3 DEF AsMeant
  <1>5. SUFFICES done = ms
    BY <1>4
  <1>6. CASE Len(s) = 0
    <2>1. T = <<>> /\ Parted(<<>>) = <<>>
      BY <1>1, <1>6, EmptyScript
    <2>2. ~HintCut(T)
      <3>1. 1 \notin DOMAIN T
        BY <2>1
      <3> QED
        BY <3>1, Zenon DEF HintCut, IsWord, IsKind
    <2>3. done = <<>>
      BY <1>2, <2>1, <2>2
    <2>4. DOMAIN s = {}
      BY <1>3, <1>6
    <2>5. ms = <<>>
      <3>1. DOMAIN ms = {}
        BY <1>4, <2>4, Zenon
      <3>2. ms = [n \in {} |-> ms[n]]
        BY <1>4, <2>4, <3>1
      <3> QED
        BY <3>2
    <2> QED
      BY <2>3, <2>5
  <1>7. CASE Len(s) # 0
    <2>1. /\ AreStatements(ws) /\ Len(ws) = Len(s)
          /\ AreStatements(ms) /\ Len(ms) = Len(s)
          /\ 1 \in 1..Len(s)
      BY <1>1, <1>3, <1>7, ScriptStatements
    <2>2. \A n \in 1..Len(s) : Understood(ws[n]) => ws[n] = ms[n] /\ s[n].hint = <<>>
      BY <1>1, UnderstoodMeans
    <2>3. PICK ts : Accumulates(ts, ws) /\ ts[Len(s)] = T
      BY <1>1, <1>7, ScriptText
    <2> HIDE DEF s, T, ws, ms
    <2>4. /\ ws \in Seq(Seq(Token)) /\ ms \in Seq(Seq(Token))
      BY <2>1 DEF AreStatements
    <2>5. CASE plan.sql = T
      <3>1. Parted(T) = ws
        BY <2>1, <2>3, PartedAll
      <3>2. done = ws /\ \A n \in 1..Len(s) : Understood(ws[n])
        <4>1. done = ws
          BY <1>2, <2>5, <3>1
        <4>2. DOMAIN ws = 1..Len(s)
          BY <2>1, <2>4
        <4> QED
          BY <1>2, <4>1, <4>2
      <3>3. ws = ms
        <4> DEFINE q == Seq(Token)
        <4>1. /\ ws \in Seq(q) /\ ms \in Seq(q) /\ Len(ws) = Len(ms)
              /\ \A n \in 1..Len(ws) : ws[n] = ms[n]
          BY <2>1, <2>2, <2>4, <3>2
        <4> HIDE DEF q
        <4> QED
          BY <4>1, SeqEqual
      <3> QED
        BY <3>2, <3>3
    <2>6. CASE HintCut(T) /\ plan.sql = Unhinted(T, HintEnd(T) + 6)
      <3> DEFINE vs == [ws EXCEPT ![1] = ms[1]]
      <3>1. s[1].hint # <<>>
        BY <1>1, <1>7, <2>1, <2>6, FirstHinted DEF T, ms
      <3>2. done = vs
        <4>1. Parted(Unhinted(T, HintEnd(T) + 6)) = vs
          BY <1>1, <1>7, <2>6, <3>1, HintDropped DEF T, ws, ms
        <4> QED
          BY <1>2, <2>6, <4>1
      <3>3. /\ vs \in Seq(Seq(Token)) /\ Len(vs) = Len(s) /\ vs[1] = ms[1]
            /\ \A n \in 2..Len(s) : vs[n] = ws[n]
            /\ DOMAIN vs = 1..Len(s)
        <4> DEFINE q == Seq(Token)
        <4>1. ws \in Seq(q) /\ ms \in Seq(q) /\ Len(ws) = Len(s) /\ Len(ms) = Len(s)
          BY <2>1, <2>4
        <4> HIDE DEF q
        <4>2. ms[1] \in q
          BY <2>1, <4>1
        <4>3. vs \in Seq(q) /\ Len(vs) = Len(s) /\ vs[1] = ms[1]
          BY <2>1, <4>1, <4>2
        <4>4. \A n \in 2..Len(s) : vs[n] = ws[n]
          BY <4>1
        <4>5. DOMAIN vs = 1..Len(s)
          BY <4>1
        <4> QED
          BY <4>3, <4>4, <4>5 DEF q
      <3> HIDE DEF vs
      <3>4. ASSUME NEW n \in 1..Len(s) PROVE vs[n] = ms[n]
        <4>1. CASE n = 1
          BY <3>3, <4>1
        <4>2. CASE n # 1
          <5>1. n \in 2..Len(s)
            BY <1>3, <4>2 DEF s
          <5>2. vs[n] = ws[n] /\ Understood(ws[n])
            BY <1>2, <3>2, <3>3, <5>1
          <5> QED
            BY <2>2, <5>2
        <4> QED
          BY <4>1, <4>2
      <3>5. vs = ms
        <4> DEFINE q == Seq(Token)
        <4>1. /\ vs \in Seq(q) /\ ms \in Seq(q) /\ Len(vs) = Len(ms)
              /\ \A n \in 1..Len(vs) : vs[n] = ms[n]
          BY <2>1, <2>4, <3>3, <3>4
        <4> HIDE DEF q
        <4> QED
          BY <4>1, SeqEqual
      <3> QED
        BY <3>2, <3>5
    <2> QED
      BY <1>2, <2>5, <2>6 DEF s, T
  <1> QED
    BY <1>6, <1>7

\* However many statements a client sends in one call, with comments, literals
\* and hints in them: when the call succeeds and none of them asks for a sketch,
\* DuckDB has run all of them, in order, each in the client's words, and the
\* hint alone has been cut out (tokenize_sql, parse_insert_values_plan,
\* DuckDBBackend::exec).
THEOREM SpecNothingDropped == Spec => []NothingDropped
  BY SpecRan, RanNothingDropped, PTL

-----------------------------------------------------------------------------
(* A statement in a text: what the planner reads in it does not depend on   *)
(* the hint before it nor on the statements behind it                      *)

\* From its second token on, the statement u stands in c, k tokens further on
\* than alone, and ends where c ends or at a semicolon.
Window(c, k, u) ==
    /\ c \in Seq(Token) /\ u \in Seq(Token) /\ k \in Nat
    /\ Len(u) >= 1 /\ k + Len(u) <= Len(c)
    /\ \A n \in 2..Len(u) : c[k + n] = u[n]
    /\ k + Len(u) < Len(c) => c[k + Len(u) + 1] = Semi

\* It closes the parentheses it opens, and no other ones.
Nested(u) ==
    /\ \A n \in 1..Len(u) : Opened(u, 1, n) >= 0
    /\ Opened(u, 1, Len(u)) = 0

LEMMA WindowType ==
    ASSUME NEW c, NEW k, NEW u, Window(c, k, u)
    PROVE  /\ c \in Seq(Token) /\ u \in Seq(Token) /\ k \in Nat
           /\ Len(u) \in Nat /\ Len(c) \in Nat /\ Len(u) >= 1 /\ k + Len(u) <= Len(c)
           /\ DOMAIN u = 1..Len(u) /\ DOMAIN c = 1..Len(c)
           /\ \A n \in 2..Len(u) : c[k + n] = u[n]
           /\ k + Len(u) < Len(c) => c[k + Len(u) + 1] = Semi
  <1>1. /\ c \in Seq(Token) /\ u \in Seq(Token) /\ k \in Nat
        /\ Len(u) >= 1 /\ k + Len(u) <= Len(c)
        /\ \A n \in 2..Len(u) : c[k + n] = u[n]
        /\ k + Len(u) < Len(c) => c[k + Len(u) + 1] = Semi
    BY DEF Window
  <1>2. \A q \in Seq(Token) : Len(q) \in Nat /\ DOMAIN q = 1..Len(q)
    OBVIOUS
  <1> QED
    BY <1>1, <1>2, Zenon

\* A kind or a word is the same up to the semicolon, which is none of these.
LEMMA KindAlike ==
    ASSUME NEW c, NEW k, NEW u, Window(c, k, u), NEW n \in 2..Len(u) + 1,
           NEW kind, kind # "other"
    PROVE  /\ IsKind(c, k + n, kind) <=> IsKind(u, n, kind)
           /\ \A word : IsWord(c, k + n, word) <=> IsWord(u, n, word)
           /\ IsKind(u, n, kind) => n \in 2..Len(u) /\ c[k + n] = u[n]
  <1>1. /\ Len(u) \in Nat /\ Len(c) \in Nat /\ k \in Nat /\ k + Len(u) <= Len(c)
        /\ DOMAIN u = 1..Len(u) /\ DOMAIN c = 1..Len(c)
        /\ \A i \in 2..Len(u) : c[k + i] = u[i]
        /\ k + Len(u) < Len(c) => c[k + Len(u) + 1] = Semi
    BY WindowType
  <1>2. CASE n \in 2..Len(u)
    <2>1. k + n \in 1..Len(c) /\ n \in 1..Len(u)
      BY <1>1, <1>2
    <2>2. c[k + n] = u[n]
      BY <1>1, <1>2
    <2> QED
      BY <1>1, <1>2, <2>1, <2>2, Zenon DEF IsKind, IsWord
  <1>3. CASE n \notin 2..Len(u)
    <2>1. n = Len(u) + 1 /\ n \notin 1..Len(u) /\ k + n = k + Len(u) + 1
      BY <1>1, <1>3
    <2>2. k + n \in 1..Len(c) => c[k + n] = Semi
      <3>1. k + n \in 1..Len(c) => k + Len(u) < Len(c)
        BY <1>1, <2>1
      <3> QED
        BY <1>1, <2>1, <3>1
    <2>3. Semi.kind = "other"
      BY SemiIs
    <2>4. "other" # "identifier"
      BY Zenon
    <2>5. \A x : ~IsKind(u, n, x)
      BY <1>1, <2>1, Zenon DEF IsKind
    <2>6. ~IsKind(c, k + n, kind) /\ ~IsKind(c, k + n, "identifier")
      BY <1>1, <2>2, <2>3, <2>4, Zenon DEF IsKind
    <2> QED
      BY <2>5, <2>6, Zenon DEF IsWord
  <1> QED
    BY <1>2, <1>3

LEMMA TurnType == \A t : Turn(t) \in {-1, 0, 1}
  BY Zenon DEF Turn

LEMMA OpenedAlike ==
    ASSUME NEW c, NEW k, NEW u, Window(c, k, u), NEW i \in 2..Len(u) + 1
    PROVE  \A j \in Nat : i - 1 <= j /\ j <= Len(u) =>
              Opened(c, k + i, k + j) = Opened(u, i, j)
  <1> DEFINE a == i - 1
             F(n) == Opened(c, k + i, k + n)
             G(n) == Opened(u, i, n)
             Good(d) == a + d <= Len(u) => F(a + d) = G(a + d)
             S == {d \in Nat : Good(d)}
  <1>1. /\ Len(u) \in Nat /\ k \in Nat
        /\ \A n \in 2..Len(u) : c[k + n] = u[n]
    BY WindowType
  <1>2. a \in Nat /\ a >= 1 /\ a + 1 = i /\ k + a \in Nat /\ (k + a) + 1 = k + i
        /\ i \in Nat /\ k + i \in Nat
    BY <1>1
  <1>3. Good(0)
    <2>1. Opened(u, a + 1, a) = 0 /\ Opened(c, (k + a) + 1, k + a) = 0
      BY <1>2, OpenedNone
    <2>2. a + 0 = a
      BY <1>2
    <2> HIDE DEF a
    <2> QED
      BY <1>2, <2>1, <2>2, Zenon
  <1> HIDE DEF a
  <1>4. ASSUME NEW d \in Nat, Good(d) PROVE Good(d + 1)
    <2> DEFINE n == a + d
    <2>1. SUFFICES ASSUME n + 1 <= Len(u) PROVE F(n + 1) = G(n + 1)
      <3>1. a + (d + 1) = n + 1
        BY <1>2
      <3> QED
        BY <3>1
    <2>2. /\ n \in Nat /\ n <= Len(u) /\ n + 1 \in 2..Len(u) /\ i <= n + 1
          /\ k + n \in Nat /\ k + i <= (k + n) + 1 /\ (k + n) + 1 = k + (n + 1)
      BY <1>1, <1>2, <2>1
    <2>3. F(n) = G(n)
      BY <1>4, <2>2
    <2> HIDE DEF n
    <2>4. c[k + (n + 1)] = u[n + 1]
      BY <1>1, <2>2
    <2>5. G(n + 1) = G(n) + Turn(u[n + 1])
      BY <1>2, <2>2, OpenedStep
    <2>6. Opened(c, k + i, (k + n) + 1) = F(n) + Turn(c[(k + n) + 1])
      BY <1>2, <2>2, OpenedStep
    <2> QED
      BY <2>2, <2>3, <2>4, <2>5, <2>6, Zenon
  <1> HIDE DEF Good
  <1>5. 0 \in S /\ \A d \in Nat : d \in S => d + 1 \in S
    BY <1>3, <1>4
  <1> HIDE DEF S
  <1>6. ASSUME NEW j \in Nat, a <= j, j <= Len(u) PROVE F(j) = G(j)
    <2>1. j - a \in Nat /\ a + (j - a) = j
      BY <1>2, <1>6
    <2>2. j - a \in S
      BY <1>5, <2>1, Upwards
    <2>3. Good(j - a)
      BY <2>2 DEF S
    <2> HIDE DEF F, G
    <2> QED
      BY <1>6, <2>1, <2>3, Zenon DEF Good
  <1> QED
    BY <1>6 DEF a

LEMMA OpenedSplit ==
    ASSUME NEW u, NEW m \in Nat
    PROVE  \A n \in Nat : m <= n =>
              /\ Opened(u, 1, n) = Opened(u, 1, m) + Opened(u, m + 1, n)
              /\ Opened(u, 1, m) \in Int /\ Opened(u, m + 1, n) \in Int
  <1> DEFINE F(n) == Opened(u, 1, n)
             G(n) == Opened(u, m + 1, n)
             Good(d) == F(m + d) = F(m) + G(m + d) /\ G(m + d) \in Int
             S == {d \in Nat : Good(d)}
  <1>1. F(m) \in Int
    <2>1. 1 \in Nat /\ 1 <= m + 1
      OBVIOUS
    <2> QED
      BY <2>1, OpenedStep
  <1>2. Good(0)
    <2>1. G(m) = 0 /\ m + 0 = m
      BY OpenedNone
    <2> HIDE DEF F, G
    <2>2. F(m) = F(m) + G(m) /\ G(m) \in Int
      BY <1>1, <2>1
    <2> QED
      BY <2>1, <2>2, Zenon
  <1>3. ASSUME NEW d \in Nat, Good(d) PROVE Good(d + 1)
    <2> DEFINE n == m + d
               x == Turn(u[n + 1])
    <2>1. n \in Nat /\ 1 <= n + 1 /\ m + 1 <= n + 1 /\ m + (d + 1) = n + 1
          /\ 1 \in Nat /\ m + 1 \in Nat
      OBVIOUS
    <2>2. F(n) = F(m) + G(n) /\ G(n) \in Int
      BY <1>3
    <2> HIDE DEF n
    <2>3. F(n + 1) = F(n) + x /\ G(n + 1) = G(n) + x
      BY <2>1, OpenedStep
    <2>4. x \in {-1, 0, 1}
      BY TurnType, Zenon
    <2> HIDE DEF F, G, x
    <2>5. F(n + 1) = F(m) + G(n + 1) /\ G(n + 1) \in Int
      BY <1>1, <2>2, <2>3, <2>4
    <2> QED
      BY <2>1, <2>5, Zenon
  <1> HIDE DEF Good
  <1>4. 0 \in S /\ \A d \in Nat : d \in S => d + 1 \in S
    BY <1>2, <1>3
  <1> HIDE DEF S
  <1>5. ASSUME NEW n \in Nat, m <= n PROVE F(n) = F(m) + G(n) /\ G(n) \in Int
    <2>1. n - m \in Nat /\ m + (n - m) = n
      BY <1>5
    <2>2. n - m \in S
      BY <1>4, <2>1, Upwards
    <2>3. Good(n - m)
      BY <2>2 DEF S
    <2> HIDE DEF F, G
    <2> QED
      BY <2>1, <2>3, Zenon DEF Good
  <1> QED
    BY <1>1, <1>5

\* The parentheses of a nested statement find their partners in it.
LEMMA Closes ==
    ASSUME NEW u \in Seq(Token), Nested(u), NEW l \in 1..Len(u),
           u[l].kind = "left_paren"
    PROVE  MatchingParen(u, l) \in l + 1..Len(u)
  <1> DEFINE G(n) == Opened(u, l, n)
             a == l - 1
             L == Len(u)
             D == {n \in l..L : G(n) <= 0}
  <1>1. L \in Nat /\ l \in Nat /\ a \in Nat /\ a + 1 = l /\ a <= L /\ l \in l..L
        /\ \A n \in 1..L : Opened(u, 1, n) >= 0
        /\ Opened(u, 1, L) = 0
    BY DEF Nested
  <1>2. Opened(u, 1, a) >= 0
    <2>1. CASE a = 0
      <3>1. 0 \in Nat /\ 0 + 1 = 1
        OBVIOUS
      <3>2. Opened(u, 1, 0) = 0
        BY <3>1, OpenedNone
      <3> HIDE DEF a
      <3>3. Opened(u, 1, a) = 0
        BY <2>1, <3>2, Zenon
      <3> QED
        BY <3>3
    <2>2. CASE a # 0
      <3>1. a \in 1..L
        BY <1>1, <2>2
      <3> QED
        BY <1>1, <3>1
    <2> QED
      BY <2>1, <2>2
  <1> HIDE DEF a, L
  <1>3. Opened(u, 1, L) = Opened(u, 1, a) + G(L)
        /\ Opened(u, 1, a) \in Int /\ G(L) \in Int
    BY <1>1, OpenedSplit
  <1>4. G(L) <= 0
    <2> HIDE DEF G
    <2> QED
      BY <1>1, <1>2, <1>3
  <1>5. PICK d \in D : \A n \in D : d <= n
    <2>1. D \in SUBSET Nat /\ L \in D
      BY <1>1, <1>4
    <2> HIDE DEF D
    <2> QED
      BY <2>1, HasLeast
  <1>6. G(l) = 1
    <2>1. G(a) = 0 /\ G(a + 1) = G(a) + Turn(u[a + 1])
      <3>1. l <= a + 1
        BY <1>1
      <3>2. Opened(u, a + 1, a) = 0
        BY <1>1, OpenedNone
      <3> QED
        BY <1>1, <3>1, <3>2, OpenedStep
    <2>2. Turn(u[l]) = 1
      BY Zenon DEF Turn
    <2> HIDE DEF G
    <2>3. G(l) = 0 + 1
      BY <1>1, <2>1, <2>2, Zenon
    <2> QED
      BY <2>3
  <1>7. d \in Nat /\ l < d /\ d <= L /\ d - 1 \in l..L /\ d - 1 \in Nat
        /\ (d - 1) + 1 = d /\ l <= (d - 1) + 1 /\ d - 1 < d /\ G(d) <= 0
    <2>1. d \in l..L /\ G(d) <= 0
      BY <1>5
    <2>2. d # l
      <3>1. ~(1 <= 0)
        OBVIOUS
      <3> HIDE DEF G
      <3> QED
        BY <1>6, <2>1, <3>1
    <2> HIDE DEF G
    <2> QED
      BY <1>1, <2>1, <2>2
  <1>8. G(d - 1) \in Int /\ G(d) = G(d - 1) + Turn(u[d])
    <2> DEFINE e == d - 1
    <2>1. e \in Nat /\ l <= e + 1 /\ e + 1 = d
      BY <1>7
    <2> HIDE DEF e
    <2>2. G(e) \in Int /\ G(e + 1) = G(e) + Turn(u[e + 1])
      BY <1>1, <2>1, OpenedStep
    <2> QED
      BY <2>1, <2>2, Zenon DEF e
  <1>9. ~(G(d - 1) <= 0)
    <2>1. d - 1 \notin D
      <3> HIDE DEF D
      <3>1. ~(d <= d - 1)
        BY <1>7
      <3> QED
        BY <1>5, <3>1
    <2> QED
      BY <1>7, <2>1
  <1>10. G(d) = 0
    <2> DEFINE x == Turn(u[d])
    <2>1. x \in {-1, 0, 1}
      BY TurnType, Zenon
    <2> HIDE DEF G, x
    <2> QED
      BY <1>7, <1>8, <1>9, <2>1 DEF x
  <1> DEFINE r == MatchingParen(u, l)
  <1>11. /\ r \in Nat /\ (r = L + 1 \/ (r \in l..L /\ G(r) = 0))
         /\ \A n \in l..L : n < r => G(n) # 0
    BY <1>1, MatchingIs DEF L
  <1> HIDE DEF r
  <1>12. r # L + 1
    <2>1. d \in l..L /\ (r = L + 1 => d < r)
      BY <1>1, <1>7
    <2> QED
      BY <1>10, <1>11, <2>1
  <1>13. r # l
    <2>1. 1 # 0
      OBVIOUS
    <2> HIDE DEF G
    <2> QED
      BY <1>1, <1>6, <1>11, <1>12, <2>1
  <1>14. r \in l + 1..L
    BY <1>1, <1>11, <1>12, <1>13
  <1> QED
    BY <1>14 DEF r, L

LEMMA MatchingAlike ==
    ASSUME NEW c, NEW k, NEW u, Window(c, k, u), NEW l \in 2..Len(u),
           MatchingParen(u, l) <= Len(u)
    PROVE  MatchingParen(c, k + l) = k + MatchingParen(u, l)
  <1> DEFINE r == MatchingParen(u, l)
             ns == {n \in k + l..Len(c) : Opened(c, k + l, n) = 0}
             o == Len(c) + 1
  <1>1. /\ c \in Seq(Token) /\ u \in Seq(Token) /\ k \in Nat
        /\ Len(u) \in Nat /\ Len(c) \in Nat /\ k + Len(u) <= Len(c)
    BY WindowType
  <1>2. l \in Nat /\ l \in 2..Len(u) + 1
    BY <1>1
  <1>3. /\ r \in l..Len(u) /\ r \in Nat /\ Opened(u, l, r) = 0
        /\ \A n \in l..Len(u) : n < r => Opened(u, l, n) # 0
    <2>1. /\ r = Len(u) + 1 \/ (r \in l..Len(u) /\ Opened(u, l, r) = 0)
          /\ \A n \in l..Len(u) : n < r => Opened(u, l, n) # 0
      BY <1>1, <1>2, MatchingIs
    <2> HIDE DEF r
    <2>2. r # Len(u) + 1
      BY <1>1 DEF r
    <2> QED
      BY <1>2, <2>1, <2>2
  <1>4. \A j \in l..Len(u) : Opened(c, k + l, k + j) = Opened(u, l, j)
    <2>1. \A j \in l..Len(u) : j \in Nat /\ l - 1 <= j /\ j <= Len(u)
      BY <1>2
    <2>2. \A j \in Nat : l - 1 <= j /\ j <= Len(u) =>
             Opened(c, k + l, k + j) = Opened(u, l, j)
      BY <1>2, OpenedAlike
    <2> QED
      BY <2>1, <2>2, Zenon
  <1> HIDE DEF r
  <1>5. k + r \in ns
    <2>1. k + r \in k + l..Len(c)
      BY <1>1, <1>2, <1>3
    <2> QED
      BY <1>3, <1>4, <2>1
  <1>6. ASSUME NEW m \in ns \cup {o} PROVE k + r <= m
    <2>1. CASE m = o
      BY <1>1, <1>3, <2>1
    <2>2. CASE m \in ns /\ m < k + r
      <3>1. m - k \in l..Len(u) /\ m - k < r /\ k + (m - k) = m
        BY <1>1, <1>2, <1>3, <2>2
      <3>2. Opened(c, k + l, m) = 0
        BY <2>2
      <3> HIDE DEF ns
      <3> QED
        BY <1>3, <1>4, <3>1, <3>2
    <2>3. CASE m \in ns /\ ~(m < k + r)
      <3>1. m \in Nat
        BY <1>1, <1>2, <2>3
      <3> QED
        BY <1>1, <1>3, <2>3, <3>1
    <2> QED
      BY <2>1, <2>2, <2>3
  <1>7. ns \in SUBSET Nat /\ o \in Nat /\ k + r \in ns \cup {o}
    BY <1>1, <1>2, <1>5
  <1>8. MatchingParen(c, k + l) = First(ns, o)
    BY Zenon DEF MatchingParen
  <1> HIDE DEF ns, o
  <1>9. First(ns, o) = k + r
    BY <1>6, <1>7, FirstUnique
  <1> QED
    BY <1>8, <1>9 DEF r

-----------------------------------------------------------------------------
(* Positions in order, moved by the same distance *)

Moves(S, k) == {k + n : n \in S}

LEMMA MovesSize ==
    ASSUME NEW S \in SUBSET Nat, IsFiniteSet(S), NEW k \in Nat
    PROVE  IsFiniteSet(Moves(S, k)) /\ Cardinality(Moves(S, k)) = Cardinality(S)
  <1> DEFINE T == Moves(S, k)
             f == [n \in S |-> k + n]
  <1>1. f \in [S -> T] /\ \A n \in S : f[n] = k + n
    BY DEF Moves
  <1>2. \A a, b \in S : f[a] = f[b] => a = b
    BY <1>1
  <1>3. \A t \in T : \E n \in S : f[n] = t
    BY <1>1 DEF Moves
  <1> HIDE DEF f, T
  <1>4. f \in Bijection(S, T)
    BY <1>1, <1>2, <1>3, Zenon DEF Bijection, Injection, Surjection, IsInjective
  <1>5. ExistsBijection(S, T)
    BY <1>4, Zenon DEF ExistsBijection
  <1>6. IsFiniteSet(T) /\ Cardinality(T) = Cardinality(S)
    BY <1>5, FS_Bijection
  <1> QED
    BY <1>6 DEF T

LEMMA PositionsFinite ==
    ASSUME NEW L \in Nat, NEW S \in SUBSET (1..L)
    PROVE  IsFiniteSet(S) /\ Cardinality(S) \in Nat /\ S \in SUBSET Nat
  <1>1. IsFiniteSet(1..L)
    BY FS_Interval
  <1>2. IsFiniteSet(S)
    BY <1>1, FS_Subset
  <1> QED
    BY <1>2, FS_CardinalityType

UpTo(S, n) == {m \in S : m <= n}

\* Positions have different ranks.
LEMMA RankUnique ==
    ASSUME NEW L \in Nat, NEW S \in SUBSET (1..L), NEW a \in S, NEW b \in S,
           Cardinality(UpTo(S, a)) = Cardinality(UpTo(S, b))
    PROVE  a = b
  <1>1. ASSUME NEW x \in S, NEW y \in S, x < y,
               Cardinality(UpTo(S, x)) = Cardinality(UpTo(S, y))
        PROVE  FALSE
    <2>1. IsFiniteSet(S) /\ S \in SUBSET Nat
      BY PositionsFinite
    <2>2. x \in Nat /\ y \in Nat /\ ~(y <= x) /\ y <= y
          /\ \A m \in Nat : m <= x => m <= y
      <3>1. x \in Nat /\ y \in Nat
        BY <2>1
      <3> QED
        BY ONLY <1>1, <3>1
    <2>3. /\ UpTo(S, x) \in SUBSET UpTo(S, y) /\ UpTo(S, y) \in SUBSET S
          /\ y \in UpTo(S, y) /\ y \notin UpTo(S, x)
      BY <2>1, <2>2 DEF UpTo
    <2>4. IsFiniteSet(UpTo(S, y))
      BY <2>1, <2>3, FS_Subset
    <2>5. UpTo(S, x) = UpTo(S, y)
      BY <1>1, <2>3, <2>4, FS_Subset
    <2> QED
      BY <2>3, <2>5
  <1>2. a \in Int /\ b \in Int
    OBVIOUS
  <1>3. a < b \/ b < a \/ a = b
    BY ONLY <1>2
  <1> QED
    BY <1>1, <1>3

LEMMA KthMoves ==
    ASSUME NEW L \in Nat, NEW S \in SUBSET (1..L), NEW k \in Nat,
           NEW i \in 1..Cardinality(S)
    PROVE  Kth(Moves(S, k), i) = k + Kth(S, i)
  <1> DEFINE T == Moves(S, k)
             x == Kth(T, i)
             y == Kth(S, i)
             Up(m) == UpTo(S, m)
  <1>1. IsFiniteSet(S) /\ S \in SUBSET Nat
    BY PositionsFinite
  <1>2. T \in SUBSET (1..L + k) /\ L + k \in Nat
    BY DEF Moves
  <1>3. i \in 1..Cardinality(T)
    BY <1>1, MovesSize
  <1>4. y \in S /\ Cardinality(Up(y)) = i
    BY KthIs DEF UpTo
  <1> HIDE DEF T
  <1>5. x \in T /\ Cardinality({n \in T : n <= x}) = i
    BY <1>2, <1>3, KthIs
  <1> HIDE DEF x, y
  <1>6. PICK z \in S : x = k + z
    BY <1>5 DEF T, Moves
  <1>7. {n \in T : n <= x} = Moves(Up(z), k)
    <2>1. \A n \in S : n \in Nat /\ z \in Nat /\ (k + n <= k + z <=> n <= z)
      BY <1>1
    <2> QED
      BY <1>6, <2>1 DEF T, Moves, UpTo
  <1>8. Cardinality(Moves(Up(z), k)) = Cardinality(Up(z))
    <2>1. Up(z) \in SUBSET S /\ Up(z) \in SUBSET Nat
      BY <1>1 DEF UpTo
    <2> HIDE DEF Up
    <2>2. IsFiniteSet(Up(z))
      BY <1>1, <2>1, FS_Subset
    <2> QED
      BY <2>1, <2>2, MovesSize
  <1>9. Cardinality(Up(z)) = Cardinality(Up(y))
    BY <1>4, <1>5, <1>7, <1>8, Zenon
  <1>10. z = y
    BY <1>4, <1>6, <1>9, RankUnique
  <1> QED
    BY <1>6, <1>10 DEF x, y, T

LEMMA InOrderIs ==
    ASSUME NEW L \in Nat, NEW S \in SUBSET (1..L)
    PROVE  /\ InOrder(S) \in Seq(S) /\ Cardinality(S) \in Nat
           /\ Len(InOrder(S)) = Cardinality(S)
           /\ DOMAIN InOrder(S) = 1..Cardinality(S)
           /\ \A i \in 1..Cardinality(S) : InOrder(S)[i] = Kth(S, i) /\ Kth(S, i) \in S
  <1>1. IsFiniteSet(S) /\ Cardinality(S) \in Nat
    BY PositionsFinite
  <1>2. \A i \in 1..Cardinality(S) : Kth(S, i) \in S
    BY KthIs
  <1> QED
    BY <1>1, <1>2 DEF InOrder

LEMMA InOrderMoves ==
    ASSUME NEW L \in Nat, NEW S \in SUBSET (1..L), NEW k \in Nat
    PROVE  /\ Len(InOrder(Moves(S, k))) = Len(InOrder(S))
           /\ \A i \in 1..Len(InOrder(S)) : InOrder(Moves(S, k))[i] = k + InOrder(S)[i]
           /\ InOrder(Moves(S, k)) \in Seq(Moves(S, k))
  <1>1. Moves(S, k) \in SUBSET (1..L + k) /\ L + k \in Nat
    BY DEF Moves
  <1>2. Cardinality(Moves(S, k)) = Cardinality(S)
    <2>1. IsFiniteSet(S) /\ S \in SUBSET Nat
      BY PositionsFinite
    <2> QED
      BY <2>1, MovesSize
  <1>3. /\ Len(InOrder(S)) = Cardinality(S)
        /\ \A i \in 1..Cardinality(S) : InOrder(S)[i] = Kth(S, i)
    BY InOrderIs
  <1>4. /\ InOrder(Moves(S, k)) \in Seq(Moves(S, k))
        /\ Len(InOrder(Moves(S, k))) = Cardinality(S)
        /\ \A i \in 1..Cardinality(S) : InOrder(Moves(S, k))[i] = Kth(Moves(S, k), i)
    BY <1>1, <1>2, InOrderIs
  <1>5. \A i \in 1..Cardinality(S) : Kth(Moves(S, k), i) = k + Kth(S, i)
    BY KthMoves
  <1> QED
    BY <1>3, <1>4, <1>5

-----------------------------------------------------------------------------
(* Lists *)

CommasIn(ts, l, r) ==
    {n \in l + 1..r - 1 : ts[n].kind = "comma" /\ Opened(ts, l + 1, n) = 0}

LEMMA CommasAlike ==
    ASSUME NEW c, NEW k, NEW u, Window(c, k, u), NEW l \in 2..Len(u), NEW r \in l..Len(u)
    PROVE  /\ CommasIn(c, k + l, k + r) = Moves(CommasIn(u, l, r), k)
           /\ CommasIn(u, l, r) \in SUBSET (1..Len(u))
  <1>1. /\ Len(u) \in Nat /\ k \in Nat
        /\ \A n \in 2..Len(u) : c[k + n] = u[n]
    BY WindowType
  <1>2. l \in Nat /\ r \in Nat /\ l + 1 \in 2..Len(u) + 1 /\ k + (l + 1) = (k + l) + 1
    BY <1>1
  <1>3. ASSUME NEW n \in l + 1..r - 1
        PROVE  /\ c[k + n] = u[n] /\ n \in 1..Len(u) /\ n \in Nat
               /\ Opened(c, (k + l) + 1, k + n) = Opened(u, l + 1, n)
    <2>1. /\ n \in Nat /\ n \in 2..Len(u) /\ n \in 1..Len(u)
          /\ (l + 1) - 1 <= n /\ n <= Len(u)
      BY <1>1, <1>2
    <2>2. Opened(c, k + (l + 1), k + n) = Opened(u, l + 1, n)
      BY <1>2, <2>1, OpenedAlike
    <2>3. Opened(c, (k + l) + 1, k + n) = Opened(u, l + 1, n)
      BY <1>2, <2>2, Zenon
    <2> QED
      BY <1>1, <2>1, <2>3
  <1>4. \A m \in (k + l) + 1..(k + r) - 1 : m - k \in l + 1..r - 1 /\ k + (m - k) = m
    BY <1>1, <1>2
  <1>5. \A n \in l + 1..r - 1 : k + n \in (k + l) + 1..(k + r) - 1
    BY <1>1, <1>2
  <1>6. ASSUME NEW m \in CommasIn(c, k + l, k + r) PROVE m \in Moves(CommasIn(u, l, r), k)
    <2>1. /\ m \in (k + l) + 1..(k + r) - 1
          /\ c[m].kind = "comma" /\ Opened(c, (k + l) + 1, m) = 0
      BY DEF CommasIn
    <2>2. m - k \in l + 1..r - 1 /\ k + (m - k) = m
      BY <1>4, <2>1
    <2>3. u[m - k].kind = "comma" /\ Opened(u, l + 1, m - k) = 0
      BY <1>3, <2>1, <2>2
    <2> QED
      BY <2>2, <2>3 DEF CommasIn, Moves
  <1>7. ASSUME NEW n \in CommasIn(u, l, r) PROVE k + n \in CommasIn(c, k + l, k + r)
    <2>1. n \in l + 1..r - 1 /\ u[n].kind = "comma" /\ Opened(u, l + 1, n) = 0
      BY DEF CommasIn
    <2> QED
      BY <1>3, <1>5, <2>1 DEF CommasIn
  <1>8. CommasIn(u, l, r) \in SUBSET (1..Len(u))
    BY <1>3 DEF CommasIn
  <1> QED
    BY <1>6, <1>7, <1>8 DEF Moves

LEMMA CommasType ==
    ASSUME NEW u \in Seq(Token), NEW l \in 1..Len(u), NEW r \in l..Len(u)
    PROVE  /\ Commas(u, l, r) \in Seq(l + 1..r - 1)
           /\ Commas(u, l, r) = InOrder(CommasIn(u, l, r))
           /\ Len(Commas(u, l, r)) \in Nat
           /\ \A n \in 1..Len(Commas(u, l, r)) : Commas(u, l, r)[n] \in l + 1..r - 1
  <1>1. Len(u) \in Nat /\ l \in Nat /\ r \in Nat
    OBVIOUS
  <1>2. CommasIn(u, l, r) \in SUBSET (1..Len(u)) /\ CommasIn(u, l, r) \in SUBSET (l + 1..r - 1)
    BY <1>1 DEF CommasIn
  <1>3. InOrder(CommasIn(u, l, r)) \in Seq(CommasIn(u, l, r))
    BY <1>1, <1>2, InOrderIs
  <1>4. Commas(u, l, r) = InOrder(CommasIn(u, l, r))
    BY DEF Commas, CommasIn
  <1>5. Seq(CommasIn(u, l, r)) \subseteq Seq(l + 1..r - 1)
    <2> DEFINE S == CommasIn(u, l, r)
               T == l + 1..r - 1
    <2>1. S \subseteq T
      BY <1>2
    <2> HIDE DEF S, T
    <2>2. Seq(S) \subseteq Seq(T)
      BY <2>1, SeqMonotonic
    <2> QED
      BY <2>2 DEF S, T
  <1>6. Commas(u, l, r) \in Seq(l + 1..r - 1)
    BY <1>2, <1>3, <1>4, <1>5, Zenon
  <1> HIDE DEF Commas
  <1>7. \A A : \A s \in Seq(A) : Len(s) \in Nat /\ \A n \in 1..Len(s) : s[n] \in A
    OBVIOUS
  <1> QED
    BY <1>4, <1>6, <1>7, Zenon

LEMMA CommasMove ==
    ASSUME NEW c, NEW k, NEW u, Window(c, k, u), NEW l \in 2..Len(u), NEW r \in l..Len(u)
    PROVE  /\ Len(Commas(c, k + l, k + r)) = Len(Commas(u, l, r))
           /\ \A n \in 1..Len(Commas(u, l, r)) :
                 Commas(c, k + l, k + r)[n] = k + Commas(u, l, r)[n]
  <1> DEFINE S == CommasIn(u, l, r)
  <1>1. Len(u) \in Nat /\ k \in Nat
    BY WindowType
  <1>2. S \in SUBSET (1..Len(u)) /\ CommasIn(c, k + l, k + r) = Moves(S, k)
    BY CommasAlike
  <1>3. /\ Commas(c, k + l, k + r) = InOrder(CommasIn(c, k + l, k + r))
        /\ Commas(u, l, r) = InOrder(S)
    BY DEF Commas, CommasIn
  <1> HIDE DEF S
  <1>4. /\ Len(InOrder(Moves(S, k))) = Len(InOrder(S))
        /\ \A i \in 1..Len(InOrder(S)) : InOrder(Moves(S, k))[i] = k + InOrder(S)[i]
        /\ InOrder(Moves(S, k)) \in Seq(Moves(S, k))
    BY <1>1, <1>2, InOrderMoves
  <1> QED
    BY <1>2, <1>3, <1>4, Zenon

EndsOf(ts, l, r) == Append(Commas(ts, l, r), r)
StartOf(ts, l, r, n) == IF n = 1 THEN l + 1 ELSE EndsOf(ts, l, r)[n - 1] + 1
ValueOf(ts, l, r, n) ==
    IF Single(ts, StartOf(ts, l, r, n), EndsOf(ts, l, r)[n] - 1)
    THEN ts[StartOf(ts, l, r, n)].text ELSE ""

LEMMA RowValuesIs ==
    \A ts, l, r :
        RowValues(ts, l, r) = [n \in DOMAIN EndsOf(ts, l, r) |-> ValueOf(ts, l, r, n)]
  BY DEF RowValues, EndsOf, StartOf, ValueOf

LEMMA AppendInt ==
    ASSUME NEW q \in Seq(Int), NEW o \in Int
    PROVE  /\ DOMAIN Append(q, o) = 1..Len(q) + 1
           /\ \A n \in 1..Len(q) : Append(q, o)[n] = q[n]
           /\ Append(q, o)[Len(q) + 1] = o
  OBVIOUS

\* The N + 1 values of a row end k tokens further on.
EndsMoved(c, k, u, l, r, N) ==
    /\ DOMAIN EndsOf(u, l, r) = 1..N + 1
    /\ DOMAIN EndsOf(c, k + l, k + r) = 1..N + 1
    /\ \A n \in 1..N + 1 : EndsOf(c, k + l, k + r)[n] = k + EndsOf(u, l, r)[n]
    /\ \A n \in 1..N + 1 : EndsOf(u, l, r)[n] \in l + 1..r
    /\ \A n \in 1..N : EndsOf(u, l, r)[n] \in l + 1..r - 1

LEMMA EndsMove ==
    ASSUME NEW c, NEW k, NEW u, Window(c, k, u), NEW l \in 2..Len(u),
           NEW r \in l + 1..Len(u)
    PROVE  \E N \in Nat : EndsMoved(c, k, u, l, r, N)
  <1> DEFINE x == Commas(u, l, r)
             y == Commas(c, k + l, k + r)
             N == Len(x)
  <1>1. /\ Len(u) \in Nat /\ Len(c) \in Nat /\ k \in Nat /\ k + Len(u) <= Len(c)
        /\ u \in Seq(Token) /\ c \in Seq(Token)
    BY WindowType
  <1>2. /\ l \in Nat /\ r \in Nat /\ l \in 1..Len(u) /\ r \in l..Len(u)
        /\ k + l \in 1..Len(c) /\ k + r \in k + l..Len(c) /\ k + r \in Nat
    BY <1>1
  <1>3. /\ x \in Seq(l + 1..r - 1) /\ N \in Nat /\ \A n \in 1..N : x[n] \in l + 1..r - 1
    BY <1>1, <1>2, CommasType
  <1>4. y \in Seq((k + l) + 1..(k + r) - 1)
    BY <1>1, <1>2, CommasType
  <1>5. Len(y) = N /\ \A n \in 1..N : y[n] = k + x[n]
    BY <1>2, CommasMove
  <1>6. EndsOf(u, l, r) = Append(x, r) /\ EndsOf(c, k + l, k + r) = Append(y, k + r)
    BY DEF EndsOf
  <1> HIDE DEF x, y, N
  <1>7. x \in Seq(Int) /\ y \in Seq(Int)
    <2>1. \A A, B : A \in SUBSET B => Seq(A) \in SUBSET Seq(B)
      OBVIOUS
    <2>2. l + 1..r - 1 \in SUBSET Int /\ (k + l) + 1..(k + r) - 1 \in SUBSET Int
      OBVIOUS
    <2> QED
      BY <1>3, <1>4, <2>1, <2>2, Zenon
  <1>8. /\ DOMAIN Append(x, r) = 1..N + 1
        /\ \A n \in 1..N : Append(x, r)[n] = x[n]
        /\ Append(x, r)[N + 1] = r
    BY <1>2, <1>7, AppendInt DEF N
  <1>9. /\ DOMAIN Append(y, k + r) = 1..N + 1
        /\ \A n \in 1..N : Append(y, k + r)[n] = y[n]
        /\ Append(y, k + r)[N + 1] = k + r
    <2>1. /\ DOMAIN Append(y, k + r) = 1..Len(y) + 1
          /\ \A n \in 1..Len(y) : Append(y, k + r)[n] = y[n]
          /\ Append(y, k + r)[Len(y) + 1] = k + r
      <3>1. k + r \in Int
        BY <1>2
      <3> QED
        BY <1>7, <3>1, AppendInt
    <2> QED
      BY <1>5, <2>1, Zenon
  <1>10. \A n \in 1..N + 1 : n \in 1..N \/ n = N + 1
    BY <1>3
  <1>11. \A n \in 1..N + 1 : Append(y, k + r)[n] = k + Append(x, r)[n]
    BY <1>5, <1>8, <1>9, <1>10, Zenon
  <1>12. r \in l + 1..r /\ \A n \in l + 1..r - 1 : n \in l + 1..r
    BY <1>2
  <1>13. \A n \in 1..N + 1 : Append(x, r)[n] \in l + 1..r
    BY <1>3, <1>8, <1>10, <1>12, Zenon
  <1>14. \A n \in 1..N : Append(x, r)[n] \in l + 1..r - 1
    BY <1>3, <1>8, Zenon
  <1>15. EndsMoved(c, k, u, l, r, N)
    BY <1>6, <1>8, <1>9, <1>11, <1>13, <1>14, Zenon DEF EndsMoved
  <1> QED
    BY <1>3, <1>15, Zenon

\* A row of values is read as it is alone.
LEMMA RowAlike ==
    ASSUME NEW c, NEW k, NEW u, Window(c, k, u), NEW l \in 2..Len(u),
           NEW r \in l + 1..Len(u)
    PROVE  RowValues(c, k + l, k + r) = RowValues(u, l, r)
  <1> DEFINE x == EndsOf(u, l, r)
             y == EndsOf(c, k + l, k + r)
  <1>1. /\ Len(u) \in Nat /\ k \in Nat
        /\ \A n \in 2..Len(u) : c[k + n] = u[n]
    BY WindowType
  <1>2. PICK N \in Nat :
           /\ DOMAIN x = 1..N + 1 /\ DOMAIN y = 1..N + 1
           /\ \A n \in 1..N + 1 : y[n] = k + x[n] /\ x[n] \in l + 1..r
           /\ \A n \in 1..N : x[n] \in l + 1..r - 1
    <2>1. PICK N \in Nat : EndsMoved(c, k, u, l, r, N)
      BY EndsMove
    <2> QED
      BY <2>1, Zenon DEF EndsMoved
  <1> HIDE DEF x, y
  <1>3. ASSUME NEW n \in 1..N + 1
        PROVE  ValueOf(c, k + l, k + r, n) = ValueOf(u, l, r, n)
    <2> DEFINE s == StartOf(u, l, r, n)
               e == x[n]
    <2>1. s \in l + 1..r /\ StartOf(c, k + l, k + r, n) = k + s
      <3>1. CASE n = 1
        <4>1. s = l + 1 /\ StartOf(c, k + l, k + r, n) = (k + l) + 1
          BY <3>1 DEF StartOf
        <4> QED
          BY <1>1, <4>1
      <3>2. CASE n # 1
        <4>1. n - 1 \in 1..N + 1 /\ n \in 1..N + 1
          BY <3>2
        <4>2. s = x[n - 1] + 1 /\ StartOf(c, k + l, k + r, n) = y[n - 1] + 1
          BY <3>2 DEF StartOf, x, y
        <4>3. y[n - 1] = k + x[n - 1] /\ x[n - 1] \in l + 1..r
          BY <1>2, <4>1
        <4>4. n - 1 \in 1..N
          BY <3>2
        <4>5. x[n - 1] \in l + 1..r - 1
          BY <1>2, <4>4
        <4> QED
          BY <1>1, <4>2, <4>3, <4>5
      <3> QED
        BY <3>1, <3>2
    <2>2. y[n] = k + e /\ e \in l + 1..r
      BY <1>2
    <2> HIDE DEF s, e
    <2>3. c[k + s] = u[s] /\ (k + s = (k + e) - 1 <=> s = e - 1)
      <3>1. s \in 2..Len(u) /\ s \in Int /\ e \in Int /\ k \in Int
        BY <1>1, <2>1, <2>2
      <3>2. k + s = (k + e) - 1 <=> s = e - 1
        BY ONLY <3>1
      <3> QED
        BY <1>1, <3>1, <3>2, Zenon
    <2>4. Single(c, k + s, (k + e) - 1) <=> Single(u, s, e - 1)
      BY <2>3, Zenon DEF Single
    <2> QED
      BY <2>1, <2>2, <2>3, <2>4, Zenon DEF ValueOf, s, e, x, y
  <1>4. /\ RowValues(c, k + l, k + r) = [n \in 1..N + 1 |-> ValueOf(c, k + l, k + r, n)]
        /\ RowValues(u, l, r) = [n \in 1..N + 1 |-> ValueOf(u, l, r, n)]
    BY <1>2, RowValuesIs, Zenon DEF x, y
  <1> QED
    BY <1>3, <1>4, Zenon

SamePart(c, k, u, a, b) == SubSeq(c, k + a, k + b) = SubSeq(u, a, b)

LEMMA PartAlike ==
    ASSUME NEW c, NEW k, NEW u, Window(c, k, u), NEW a \in 2..Len(u) + 1,
           NEW b \in Nat, b <= Len(u)
    PROVE  SamePart(c, k, u, a, b)
  <1> DEFINE x == SubSeq(u, a, b)
             y == SubSeq(c, k + a, k + b)
  <1>1. /\ Len(u) \in Nat /\ Len(c) \in Nat /\ k \in Nat /\ k + Len(u) <= Len(c)
        /\ u \in Seq(Token) /\ c \in Seq(Token)
        /\ \A n \in 2..Len(u) : c[k + n] = u[n]
    BY WindowType
  <1>2. /\ a \in Int /\ b \in Int /\ k + a \in Int /\ k + b \in Int
        /\ (k + b) - (k + a) + 1 = b - a + 1 /\ (k + a <= k + b <=> a <= b)
    BY <1>1
  <1>3. /\ \A i \in a..b : u[i] \in Token
        /\ \A i \in k + a..k + b : c[i] \in Token
    BY <1>1
  <1>4. /\ x \in Seq(Token) /\ Len(x) = IF a <= b THEN b - a + 1 ELSE 0
        /\ \A i \in 1..b - a + 1 : x[i] = u[a + i - 1]
    BY <1>2, <1>3, SubSeqProperties
  <1>5. /\ y \in Seq(Token) /\ Len(y) = IF a <= b THEN b - a + 1 ELSE 0
        /\ \A i \in 1..b - a + 1 : y[i] = c[(k + a) + i - 1]
    <2>1. /\ y \in Seq(Token)
          /\ Len(y) = IF k + a <= k + b THEN (k + b) - (k + a) + 1 ELSE 0
          /\ \A i \in 1..(k + b) - (k + a) + 1 : y[i] = c[(k + a) + i - 1]
      BY <1>2, <1>3, SubSeqProperties
    <2> HIDE DEF y
    <2> QED
      BY <1>2, <2>1, Zenon
  <1> HIDE DEF x, y
  <1>6. ASSUME NEW i \in 1..Len(x) PROVE x[i] = y[i]
    <2>1. /\ i \in 1..b - a + 1 /\ a + i - 1 \in 2..Len(u)
          /\ (k + a) + i - 1 = k + (a + i - 1)
      BY <1>1, <1>2, <1>4
    <2> QED
      BY <1>1, <1>4, <1>5, <2>1, Zenon
  <1>7. x = y
    BY <1>4, <1>5, <1>6, SeqEqual
  <1> QED
    BY <1>7, Zenon DEF SamePart, x, y

LEMMA IdentifiersAlike ==
    ASSUME NEW c, NEW k, NEW u, Window(c, k, u), NEW l \in 2..Len(u),
           NEW r \in l..Len(u)
    PROVE  Identifiers(c, k + l, k + r) = Identifiers(u, l, r)
  <1>1. Len(u) \in Nat /\ k \in Nat
    BY WindowType
  <1>2. /\ l + 1 \in 2..Len(u) + 1 /\ r - 1 \in Nat /\ r - 1 <= Len(u)
        /\ k + (l + 1) = (k + l) + 1 /\ k + (r - 1) = (k + r) - 1
    BY <1>1
  <1> DEFINE a == l + 1
             b == r - 1
  <1>3. a \in 2..Len(u) + 1 /\ b \in Nat /\ b <= Len(u)
    BY <1>2
  <1>4. SubSeq(c, (k + l) + 1, (k + r) - 1) = SubSeq(c, k + a, k + b)
    BY <1>2, Zenon
  <1> HIDE DEF a, b
  <1>5. SubSeq(c, k + a, k + b) = SubSeq(u, a, b)
    <2>1. SamePart(c, k, u, a, b)
      BY <1>3, PartAlike
    <2> QED
      BY <2>1, Zenon DEF SamePart
  <1> QED
    BY <1>4, <1>5, Zenon DEF Identifiers, a, b

-----------------------------------------------------------------------------
(* The rows of an INSERT .. VALUES *)

\* The rows of a statement that are read in c end where the statement ends.
LEMMA RowsEndIs ==
    ASSUME NEW c, NEW k, NEW u, Window(c, k, u), Nested(u), NoSemicolon(u),
           NEW a \in 3..Len(u) + 1, RowsRead(c, k + a)
    PROVE  /\ RowsEnd(c, k + a) = k + Len(u) + 1
           /\ RowsEnd(u, a) = Len(u) + 1
           /\ \A n \in a..Len(u) : Opened(u, a, n) >= 0
  <1> DEFINE L == Len(u)
             b == k + a
             e == k + L + 1
             o == Len(c) + 1
             ns == {n \in b..Len(c) : Opened(c, b, n - 1) = 0 /\ IsSemicolon(c[n])}
  <1>1. /\ L \in Nat /\ Len(c) \in Nat /\ k \in Nat /\ k + L <= Len(c) /\ L >= 1
        /\ DOMAIN u = 1..L
        /\ \A n \in 2..L : c[k + n] = u[n]
        /\ k + L < Len(c) => c[e] = Semi
    BY WindowType
  <1>2. /\ a \in Nat /\ a >= 3 /\ a <= L + 1 /\ a \in 2..L + 1
        /\ b \in Nat /\ e \in Nat /\ o \in Nat /\ e <= o /\ b <= e
    BY <1>1
  <1>3. \A n \in 1..L : ~IsSemicolon(u[n])
    BY <1>1 DEF NoSemicolon
  <1>4. \A j \in Nat : a - 1 <= j /\ j <= L => Opened(c, b, k + j) = Opened(u, a, j)
    BY <1>2, OpenedAlike
  <1>5. \A n \in b..RowsEnd(c, b) - 1 : Opened(c, b, n) >= 0
    BY Zenon DEF RowsRead
  <1>6. RowsEnd(c, b) = First(ns, o)
    BY Zenon DEF RowsEnd
  <1> HIDE DEF L, b, e, o
  <1>7. ASSUME NEW n \in ns PROVE n \in Nat /\ e <= n
    <2>1. n \in b..Len(c) /\ IsSemicolon(c[n])
      OBVIOUS
    <2>2. n \in Nat
      BY <1>1, <1>2, <2>1
    <2>3. CASE n < e
      <3>1. n - k \in 2..L /\ n - k \in 1..L /\ k + (n - k) = n
        BY <1>1, <1>2, <2>1, <2>3 DEF b, e
      <3>2. c[n] = u[n - k]
        BY <1>1, <3>1
      <3> QED
        BY <1>3, <2>1, <3>1, <3>2
    <2>4. CASE ~(n < e)
      BY <1>2, <2>2, <2>4
    <2> QED
      BY <2>3, <2>4
  <1>8. ns \in SUBSET Nat
    BY <1>7
  <1>9. /\ First(ns, o) \in ns \cup {o} /\ First(ns, o) \in Nat
        /\ e <= First(ns, o)
    <2>1. First(ns, o) \in ns \cup {o}
      BY <1>2, <1>8, FirstIs
    <2> HIDE DEF ns
    <2> QED
      BY <1>2, <1>7, <2>1
  <1>10. \A n \in a..L : Opened(u, a, n) >= 0
    <2>1. ASSUME NEW n \in a..L PROVE Opened(u, a, n) >= 0
      <3>1. n \in Nat /\ a - 1 <= n /\ n <= L
        BY <1>1, <1>2
      <3>2. k + n \in b..First(ns, o) - 1
        <4> HIDE DEF ns
        <4> QED
          BY <1>1, <1>2, <1>9, <3>1 DEF b, e
      <3>3. Opened(c, b, k + n) >= 0
        BY <1>5, <1>6, <3>2, Zenon
      <3> QED
        BY <1>4, <3>1, <3>3
    <2> QED
      BY <2>1
  <1>11. Opened(u, a, L) = 0
    <2>1. CASE a = L + 1
      BY <1>1, <2>1, OpenedNone
    <2>2. CASE a # L + 1
      <3> DEFINE m == a - 1
      <3>1. m \in Nat /\ m <= L /\ m + 1 = a /\ m \in 1..L /\ L \in a..L
        BY <1>1, <1>2, <2>2
      <3>2. Opened(u, 1, m) >= 0 /\ Opened(u, 1, L) = 0
        BY <3>1 DEF Nested, L
      <3>3. Opened(u, a, L) >= 0
        BY <1>10, <3>1
      <3> HIDE DEF m
      <3>4. /\ Opened(u, 1, L) = Opened(u, 1, m) + Opened(u, m + 1, L)
            /\ Opened(u, 1, m) \in Int /\ Opened(u, m + 1, L) \in Int
        BY <1>1, <3>1, OpenedSplit
      <3>5. Opened(u, m + 1, L) = Opened(u, a, L)
        BY <3>1
      <3> QED
        BY <3>2, <3>3, <3>4, <3>5
    <2> QED
      BY <2>1, <2>2
  <1>12. e \in ns \cup {o}
    <2>1. CASE k + L = Len(c)
      BY <2>1 DEF e, o
    <2>2. CASE k + L # Len(c)
      <3>1. k + L < Len(c) /\ e \in b..Len(c) /\ e - 1 = k + L
        BY <1>1, <1>2, <2>2 DEF e
      <3>2. IsSemicolon(c[e])
        BY <1>1, <3>1, SemiIs
      <3>3. a - 1 <= L
        BY <1>1, <1>2
      <3>4. Opened(c, b, e - 1) = 0
        BY <1>1, <1>4, <1>11, <3>1, <3>3
      <3> QED
        BY <3>1, <3>2, <3>4
    <2> QED
      BY <2>1, <2>2
  <1>13. First(ns, o) = e
    <2>1. \A m \in ns \cup {o} : e <= m
      BY <1>2, <1>7
    <2> HIDE DEF ns
    <2> QED
      BY <1>2, <1>8, <1>12, <2>1, FirstUnique
  <1>14. RowsEnd(u, a) = L + 1
    <2> DEFINE ms == {n \in a..L : Opened(u, a, n - 1) = 0 /\ IsSemicolon(u[n])}
    <2>1. ms = {}
      <3>1. \A n \in a..L : n \in 1..L
        BY <1>1, <1>2
      <3> QED
        BY <1>3, <3>1
    <2>2. RowsEnd(u, a) = First(ms, L + 1)
      BY Zenon DEF RowsEnd, L
    <2> HIDE DEF ms
    <2>3. ms \in SUBSET Nat /\ L + 1 \in Nat /\ L + 1 \in ms \cup {L + 1}
          /\ \A m \in ms \cup {L + 1} : L + 1 <= m
      BY <1>1, <2>1
    <2> QED
      BY <2>2, <2>3, FirstUnique
  <1>15. RowsEnd(c, b) = e
    BY <1>6, <1>13, Zenon
  <1> QED
    BY <1>10, <1>14, <1>15 DEF b, e, L

LEMMA BetweenAlike ==
    ASSUME NEW c, NEW k, NEW u, Window(c, k, u), Nested(u), NoSemicolon(u),
           NEW a \in 3..Len(u) + 1, RowsRead(c, k + a)
    PROVE  /\ \A n \in BetweenRows(u, a) : k + n \in BetweenRows(c, k + a) /\ c[k + n] = u[n]
           /\ RowStarts(c, k + a) = Moves(RowStarts(u, a), k)
           /\ RowStarts(u, a) \in SUBSET (2..Len(u))
  <1> DEFINE L == Len(u)
             b == k + a
  <1>1. /\ L \in Nat /\ k \in Nat
        /\ \A n \in 2..L : c[k + n] = u[n]
    BY WindowType
  <1>2. a \in Nat /\ a >= 3 /\ a \in 2..L + 1
    BY <1>1
  <1>3. RowsEnd(c, b) = k + L + 1 /\ RowsEnd(u, a) = L + 1
    BY RowsEndIs
  <1>4. \A j \in Nat : a - 1 <= j /\ j <= L => Opened(c, b, k + j) = Opened(u, a, j)
    BY <1>2, OpenedAlike
  <1>5. /\ BetweenRows(c, b) = {n \in b..(k + L + 1) - 1 :
                                   Opened(c, b, n - 1) = 0 /\ c[n].kind # "right_paren"}
        /\ BetweenRows(u, a) = {n \in a..(L + 1) - 1 :
                                   Opened(u, a, n - 1) = 0 /\ u[n].kind # "right_paren"}
    BY <1>3, Zenon DEF BetweenRows
  <1>6. /\ RowStarts(c, b) = {n \in BetweenRows(c, b) : c[n].kind = "left_paren"}
        /\ RowStarts(u, a) = {n \in BetweenRows(u, a) : u[n].kind = "left_paren"}
    BY Zenon DEF RowStarts
  <1>7. ASSUME NEW n \in a..L
        PROVE  /\ n \in 2..L /\ k + n \in b..(k + L + 1) - 1 /\ c[k + n] = u[n]
               /\ Opened(c, b, (k + n) - 1) = Opened(u, a, n - 1)
    <2>1. n \in 2..L /\ k + n \in b..(k + L + 1) - 1
      BY <1>1, <1>2
    <2>2. n - 1 \in Nat /\ a - 1 <= n - 1 /\ n - 1 <= L /\ k + (n - 1) = (k + n) - 1
      BY <1>1, <1>2
    <2>3. Opened(c, b, k + (n - 1)) = Opened(u, a, n - 1)
      BY <1>4, <2>2
    <2> QED
      BY <1>1, <2>1, <2>2, <2>3, Zenon
  <1>8. /\ \A n \in b..(k + L + 1) - 1 : n - k \in a..L /\ k + (n - k) = n
        /\ a..(L + 1) - 1 = a..L
    <2>1. \A n \in b..(k + L + 1) - 1 : n - k \in a..L /\ k + (n - k) = n
      BY <1>1, <1>2
    <2>2. (L + 1) - 1 = L
      BY <1>1
    <2> QED
      BY <2>1, <2>2, Zenon
  <1> HIDE DEF b, L
  <1>9. ASSUME NEW n \in BetweenRows(u, a)
        PROVE  k + n \in BetweenRows(c, b) /\ c[k + n] = u[n] /\ n \in 2..L
    <2>1. n \in a..L /\ Opened(u, a, n - 1) = 0 /\ u[n].kind # "right_paren"
      BY <1>5, <1>8
    <2> QED
      BY <1>5, <1>7, <2>1
  <1>10. ASSUME NEW m \in BetweenRows(c, b)
         PROVE  \E n \in BetweenRows(u, a) : m = k + n /\ c[m] = u[n]
    <2>1. m \in b..(k + L + 1) - 1 /\ Opened(c, b, m - 1) = 0 /\ c[m].kind # "right_paren"
      BY <1>5
    <2>2. m - k \in a..L /\ k + (m - k) = m
      BY <1>8, <2>1
    <2>3. c[m] = u[m - k] /\ Opened(u, a, (m - k) - 1) = 0
      BY <1>7, <2>1, <2>2
    <2>4. m - k \in BetweenRows(u, a)
      BY <1>5, <1>8, <2>1, <2>2, <2>3
    <2> QED
      BY <2>2, <2>3, <2>4
  <1>11. RowStarts(c, b) = Moves(RowStarts(u, a), k)
    <2>1. \A m \in RowStarts(c, b) : m \in Moves(RowStarts(u, a), k)
      BY <1>6, <1>10, Zenon DEF Moves
    <2>2. \A m \in Moves(RowStarts(u, a), k) : m \in RowStarts(c, b)
      BY <1>6, <1>9, Zenon DEF Moves
    <2> QED
      BY <2>1, <2>2, Zenon
  <1>12. RowStarts(u, a) \in SUBSET (2..L)
    BY <1>6, <1>9
  <1> QED
    BY <1>9, <1>11, <1>12 DEF b, L

\* The rows of a statement are read as they are alone.
LEMMA RowsAlike ==
    ASSUME NEW c, NEW k, NEW u, Window(c, k, u), Nested(u), NoSemicolon(u),
           NEW a \in 3..Len(u) + 1, RowsRead(c, k + a)
    PROVE  RowsRead(u, a) /\ Rows(c, k + a) = Rows(u, a)
  <1> DEFINE S == RowStarts(u, a)
             x == InOrder(S)
             y == InOrder(Moves(S, k))
  <1>1. /\ Len(u) \in Nat /\ k \in Nat /\ u \in Seq(Token)
        /\ \A n \in 2..Len(u) : c[k + n] = u[n]
    BY WindowType
  <1>2. /\ \A n \in BetweenRows(u, a) : k + n \in BetweenRows(c, k + a) /\ c[k + n] = u[n]
        /\ RowStarts(c, k + a) = Moves(S, k)
        /\ S \in SUBSET (2..Len(u))
    BY BetweenAlike
  <1>3. /\ RowStarts(c, k + a) # {}
        /\ \A n \in BetweenRows(c, k + a) : c[n].kind \in {"left_paren", "comma"}
    BY Zenon DEF RowsRead
  <1>4. \A n \in S : u[n].kind = "left_paren"
    BY DEF RowStarts
  <1>5. RowsEnd(u, a) = Len(u) + 1 /\ \A n \in a..Len(u) : Opened(u, a, n) >= 0
    BY RowsEndIs
  <1> HIDE DEF S
  <1>6. ASSUME NEW n \in S
        PROVE  /\ n \in 2..Len(u) /\ MatchingParen(u, n) \in n + 1..Len(u)
               /\ MatchingParen(u, n) <= Len(u)
    <2>1. n \in 2..Len(u) /\ n \in 1..Len(u) /\ n \in Nat
      BY <1>1, <1>2
    <2>2. MatchingParen(u, n) \in n + 1..Len(u)
      BY <1>1, <1>4, <2>1, Closes
    <2> QED
      BY <1>1, <2>1, <2>2
  <1>7. ASSUME NEW n \in S
        PROVE  RowValues(c, k + n, MatchingParen(c, k + n))
                   = RowValues(u, n, MatchingParen(u, n))
    <2> DEFINE r == MatchingParen(u, n)
    <2>1. n \in 2..Len(u) /\ r \in n + 1..Len(u)
      BY <1>6
    <2>2. MatchingParen(c, k + n) = k + r
      BY <1>6, MatchingAlike
    <2> HIDE DEF r
    <2>3. RowValues(c, k + n, k + r) = RowValues(u, n, r)
      BY <2>1, RowAlike
    <2> QED
      BY <2>2, <2>3, Zenon DEF r
  <1>8. RowsRead(u, a)
    <2>1. S # {}
      BY <1>2, <1>3 DEF Moves
    <2>2. \A n \in BetweenRows(u, a) : u[n].kind \in {"left_paren", "comma"}
      <3>1. ASSUME NEW n \in BetweenRows(u, a)
            PROVE  u[n].kind \in {"left_paren", "comma"}
        <4>1. k + n \in BetweenRows(c, k + a) /\ c[k + n] = u[n]
          BY <1>2
        <4>2. c[k + n].kind \in {"left_paren", "comma"}
          BY <1>3, <4>1, Zenon
        <4> QED
          BY <4>1, <4>2, Zenon
      <3> QED
        BY <3>1
    <2>3. a..RowsEnd(u, a) - 1 = a..Len(u)
      <3>1. (Len(u) + 1) - 1 = Len(u)
        BY <1>1
      <3> QED
        BY <1>5, <3>1, Zenon
    <2> QED
      BY <1>5, <1>6, <2>1, <2>2, <2>3, Zenon DEF RowsRead, S
  <1>9. /\ x \in Seq(S) /\ Len(y) = Len(x) /\ y \in Seq(Moves(S, k))
        /\ \A i \in 1..Len(x) : y[i] = k + x[i]
    <2>1. S \in SUBSET (1..Len(u))
      BY <1>1, <1>2
    <2> QED
      BY <1>1, <2>1, InOrderIs, InOrderMoves
  <1> HIDE DEF x, y
  <1>10. /\ DOMAIN x = 1..Len(x) /\ DOMAIN y = 1..Len(x)
         /\ \A i \in 1..Len(x) : x[i] \in S
    BY <1>9
  <1>11. /\ Rows(c, k + a) = [i \in DOMAIN y |-> RowValues(c, y[i], MatchingParen(c, y[i]))]
         /\ Rows(u, a) = [i \in DOMAIN x |-> RowValues(u, x[i], MatchingParen(u, x[i]))]
    BY <1>2, Zenon DEF Rows, S, x, y
  <1>12. \A i \in 1..Len(x) : RowValues(c, y[i], MatchingParen(c, y[i]))
                                 = RowValues(u, x[i], MatchingParen(u, x[i]))
    BY <1>7, <1>9, <1>10, Zenon
  <1>13. Rows(c, k + a) = Rows(u, a)
    BY <1>10, <1>11, <1>12, Zenon
  <1> QED
    BY <1>8, <1>13

-----------------------------------------------------------------------------
(* INSERT .. VALUES, read at the word INTO at position i *)

ListedAt(ts, i) == IsKind(ts, i + 2, "left_paren")
ListEndAt(ts, i) == MatchingParen(ts, i + 2)
ValuesAt(ts, i) == IF ListedAt(ts, i) THEN ListEndAt(ts, i) + 1 ELSE i + 2
ColsAt(ts, i) ==
    IF ListedAt(ts, i) THEN Identifiers(ts, i + 2, ListEndAt(ts, i)) ELSE <<>>

ReadsAt(ts, i) ==
    /\ IsWord(ts, i, "into") /\ IsKind(ts, i + 1, "identifier")
    /\ ~(ListedAt(ts, i) /\ ListEndAt(ts, i) > Len(ts))
    /\ IsWord(ts, ValuesAt(ts, i), "values")
    /\ RowsRead(ts, ValuesAt(ts, i) + 1)

Puts(p, ts, i) ==
    /\ p.kind = "values" /\ p.table = ts[i + 1].text
    /\ p.cols = ColsAt(ts, i) /\ p.rows = Rows(ts, ValuesAt(ts, i) + 1)

LEMMA InsertMeans ==
    ASSUME NEW ts, NEW i,
           i = IF IsWord(ts, 2, "approx_hint") THEN HintEnd(ts) + 6 ELSE 2
    PROVE  /\ InsertPlan(ts).kind = "values" =>
                 /\ IsWord(ts, 2, "approx_hint") => HintRead(ts)
                 /\ ReadsAt(ts, i) /\ Puts(InsertPlan(ts), ts, i)
           /\ /\ ~(Len(ts) < 4) /\ ReadsAt(ts, i)
              /\ IsWord(ts, 2, "approx_hint") => HintRead(ts)
              => Puts(InsertPlan(ts), ts, i)
  <1> DEFINE hinted == IsWord(ts, 2, "approx_hint")
             sql == IF hinted THEN Unhinted(ts, i) ELSE ts
             bad == \/ Len(ts) < 4
                    \/ hinted /\ ~HintRead(ts)
                    \/ ~IsWord(ts, i, "into")
                    \/ ~IsKind(ts, i + 1, "identifier")
             odd == \/ ListedAt(ts, i) /\ ListEndAt(ts, i) > Len(ts)
                    \/ ~IsWord(ts, ValuesAt(ts, i), "values")
                    \/ ~RowsRead(ts, ValuesAt(ts, i) + 1)
             warm == IF hinted THEN Identifiers(ts, 4, HintEnd(ts)) ELSE ColsAt(ts, i)
             good == [OtherMutation(sql) EXCEPT
                         !.kind = "values", !.table = ts[i + 1].text,
                         !.cols = ColsAt(ts, i), !.rows = Rows(ts, ValuesAt(ts, i) + 1),
                         !.warm = warm]
  <1>1. InsertPlan(ts) = IF bad THEN OtherMutation(ts)
                         ELSE IF odd THEN OtherMutation(sql) ELSE good
    BY Zenon DEF InsertPlan, ListedAt, ListEndAt, ValuesAt, ColsAt
  <1>2. \A us : OtherMutation(us).kind = "other"
    BY DEF OtherMutation, ExactPlan
  <1>3. "other" # "values"
    BY Zenon
  <1>4. Puts(good, ts, i)
    <2> DEFINE table == ts[i + 1].text
               cols == ColsAt(ts, i)
               rows == Rows(ts, ValuesAt(ts, i) + 1)
    <2> HIDE DEF table, cols, rows, warm, sql
    <2>1. \A x : LET p == [x EXCEPT !.kind = "values", !.table = table, !.cols = cols,
                                    !.rows = rows, !.warm = warm]
                 IN  {"kind", "table", "cols", "rows", "warm"} \subseteq DOMAIN x =>
                       /\ p.kind = "values" /\ p.table = table
                       /\ p.cols = cols /\ p.rows = rows
      OBVIOUS
    <2>2. {"kind", "table", "cols", "rows", "warm"} \subseteq DOMAIN OtherMutation(sql)
      BY DEF OtherMutation, ExactPlan
    <2> QED
      BY <2>1, <2>2, Zenon DEF Puts, table, cols, rows
  <1> HIDE DEF good, sql
  <1> QED
    BY <1>1, <1>2, <1>3, <1>4, Zenon DEF ReadsAt

\* What is read of a statement in a text is what is read of it alone.
LEMMA ReadsAlike ==
    ASSUME NEW c, NEW k, NEW u, Window(c, k, u), Nested(u), NoSemicolon(u),
           ReadsAt(c, k + 2)
    PROVE  /\ ReadsAt(u, 2) /\ ~(Len(u) < 4)
           /\ c[(k + 2) + 1].text = u[3].text
           /\ ColsAt(c, k + 2) = ColsAt(u, 2)
           /\ Rows(c, ValuesAt(c, k + 2) + 1) = Rows(u, ValuesAt(u, 2) + 1)
  <1> DEFINE L == Len(u)
             v == ValuesAt(u, 2)
             w == ValuesAt(c, k + 2)
             r == MatchingParen(u, 4)
  <1>1. L \in Nat /\ L >= 1 /\ k \in Nat /\ u \in Seq(Token) /\ DOMAIN u = 1..L
    BY WindowType
  <1>2. /\ (k + 2) + 1 = k + 3 /\ (k + 2) + 2 = k + 4
        /\ 2 + 1 = 3 /\ 2 + 2 = 4
    BY <1>1
  <1>3. "identifier" # "other" /\ "left_paren" # "other"
    BY Zenon
  <1>4. 2 \in 2..L /\ IsWord(u, 2, "into")
    <2>1. 2 \in 2..L + 1
      BY <1>1
    <2>2. IsWord(c, k + 2, "into")
      BY DEF ReadsAt
    <2>3. IsWord(u, 2, "into") /\ IsKind(u, 2, "identifier")
      <3>1. IsWord(u, 2, "into")
        BY <1>3, <2>1, <2>2, KindAlike
      <3> QED
        BY <3>1, Zenon DEF IsWord
    <2>4. 2 \in 1..L
      BY <1>1, <2>3, Zenon DEF IsKind
    <2> QED
      BY <1>1, <2>3, <2>4
  <1>5. 3 \in 2..L /\ IsKind(u, 3, "identifier") /\ c[k + 3] = u[3]
    <2>1. 3 \in 2..L + 1
      BY <1>1, <1>4
    <2>2. IsKind(c, k + 3, "identifier")
      BY <1>2, Zenon DEF ReadsAt
    <2> QED
      BY <1>3, <2>1, <2>2, KindAlike
  <1>6. /\ ListedAt(c, k + 2) <=> ListedAt(u, 2)
        /\ ListedAt(u, 2) => 4 \in 2..L /\ 4 \in 1..L /\ u[4].kind = "left_paren"
    <2>1. 4 \in 2..L + 1
      BY <1>1, <1>5
    <2>2. IsKind(c, k + 4, "left_paren") <=> IsKind(u, 4, "left_paren")
      BY <1>3, <2>1, KindAlike
    <2>3. IsKind(u, 4, "left_paren") => 4 \in 1..L /\ u[4].kind = "left_paren"
      BY <1>1, Zenon DEF IsKind
    <2>4. 4 \in 1..L => 4 \in 2..L
      BY <1>1
    <2> QED
      BY <1>2, <2>2, <2>3, <2>4, Zenon DEF ListedAt
  <1>7. ListedAt(u, 2) => /\ r \in 5..L /\ ListEndAt(u, 2) = r
                          /\ ListEndAt(c, k + 2) = k + r
    <2>1. ASSUME ListedAt(u, 2) PROVE r \in 5..L /\ MatchingParen(c, k + 4) = k + r
      <3>1. 4 \in 2..L /\ 4 \in 1..L /\ u[4].kind = "left_paren" /\ 4 + 1 = 5
        BY <1>6, <2>1
      <3>2. r \in 5..L
        BY <1>1, <3>1, Closes
      <3>3. r <= Len(u)
        BY <1>1, <3>2
      <3> QED
        BY <3>1, <3>2, <3>3, MatchingAlike
    <2> QED
      BY <1>2, <2>1, Zenon DEF ListEndAt
  <1>8. /\ v \in 4..L + 1 /\ w = k + v
        /\ ~(ListedAt(u, 2) /\ ListEndAt(u, 2) > Len(u))
    <2>1. CASE ListedAt(u, 2)
      <3>1. v = r + 1 /\ w = (k + r) + 1
        BY <1>6, <1>7, <2>1, Zenon DEF ValuesAt
      <3>2. r \in 5..L /\ ListEndAt(u, 2) = r
        BY <1>7, <2>1
      <3> HIDE DEF r
      <3> QED
        BY <1>1, <3>1, <3>2
    <2>2. CASE ~ListedAt(u, 2)
      <3>1. v = 4 /\ w = k + 4
        BY <1>2, <1>6, <2>2, Zenon DEF ValuesAt
      <3> QED
        BY <1>1, <1>5, <2>2, <3>1
    <2> QED
      BY <2>1, <2>2
  <1>9. ColsAt(c, k + 2) = ColsAt(u, 2)
    <2>1. CASE ListedAt(u, 2)
      <3>1. 4 \in 2..L /\ r \in 4..L
        <4> HIDE DEF r
        <4>1. r \in 5..L /\ 4 \in 2..L
          BY <1>6, <1>7, <2>1
        <4> QED
          BY <1>1, <4>1
      <3>2. Identifiers(c, k + 4, k + r) = Identifiers(u, 4, r)
        BY <3>1, IdentifiersAlike
      <3> QED
        BY <1>2, <1>6, <1>7, <2>1, <3>2, Zenon DEF ColsAt
    <2>2. CASE ~ListedAt(u, 2)
      BY <1>6, <2>2, Zenon DEF ColsAt
    <2> QED
      BY <2>1, <2>2
  <1> HIDE DEF v, w, r
  <1>10. v \in 4..L /\ IsWord(u, v, "values")
    <2>1. v \in 2..L + 1
      BY <1>1, <1>8
    <2>2. IsWord(c, k + v, "values")
      BY <1>8, Zenon DEF ReadsAt, w
    <2>3. IsWord(u, v, "values")
      BY <1>3, <2>1, <2>2, KindAlike
    <2>4. v \in 1..L
      BY <1>1, <2>3, Zenon DEF IsWord, IsKind
    <2> QED
      BY <1>1, <1>8, <2>3, <2>4
  <1>11. RowsRead(u, v + 1) /\ Rows(c, w + 1) = Rows(u, v + 1)
    <2> DEFINE a == v + 1
    <2>1. a \in 3..Len(u) + 1 /\ k + a = w + 1
      BY <1>1, <1>8, <1>10
    <2>2. RowsRead(c, k + a)
      BY <2>1, Zenon DEF ReadsAt, w
    <2> HIDE DEF a
    <2>3. RowsRead(u, a) /\ Rows(c, k + a) = Rows(u, a)
      BY <2>1, <2>2, RowsAlike
    <2> QED
      BY <2>1, <2>3, Zenon DEF a
  <1>12. ReadsAt(u, 2)
    BY <1>2, <1>4, <1>5, <1>8, <1>10, <1>11, Zenon DEF ReadsAt, v
  <1>13. ~(Len(u) < 4)
    BY <1>1, <1>10
  <1> QED
    BY <1>2, <1>5, <1>9, <1>11, <1>12, <1>13, Zenon DEF v, w

LEMMA PlanAtInsert ==
    ASSUME NEW ts
    PROVE  /\ PlanOf(ts).kind = "values" =>
                 IsWord(ts, 1, "insert") /\ InsertPlan(ts).kind = "values"
           /\ IsWord(ts, 1, "insert") => PlanOf(ts) = InsertPlan(ts)
  <1>1. /\ OtherMutation(ts).kind = "other" /\ ExactPlan(ts).kind = "none"
        /\ ApproxPlan(ts).kind = "none"
    BY DEF OtherMutation, ExactPlan, ApproxPlan
  <1>2. "other" # "values" /\ "none" # "values"
    BY Zenon
  <1> QED
    BY <1>1, <1>2, Zenon DEF PlanOf

\* The words behind the hint of the text c are those of u.
LEMMA InsertAlike ==
    ASSUME NEW c, NEW k, NEW u, Window(c, k, u), Nested(u), NoSemicolon(u),
           c[1] = u[1], ~IsWord(u, 2, "approx_hint"),
           IF IsWord(c, 2, "approx_hint") THEN HintRead(c) => HintEnd(c) + 6 = k + 2
                                          ELSE k = 0,
           PlanOf(c).kind = "values"
    PROVE  /\ PlanOf(u).kind = "values" /\ PlanOf(u).table = PlanOf(c).table
           /\ PlanOf(u).cols = PlanOf(c).cols /\ PlanOf(u).rows = PlanOf(c).rows
  <1> DEFINE i == IF IsWord(c, 2, "approx_hint") THEN HintEnd(c) + 6 ELSE 2
  <1>1. /\ IsWord(c, 1, "insert") /\ PlanOf(c) = InsertPlan(c)
        /\ InsertPlan(c).kind = "values"
    BY PlanAtInsert
  <1>2. /\ IsWord(c, 2, "approx_hint") => HintRead(c)
        /\ ReadsAt(c, i) /\ Puts(InsertPlan(c), c, i)
    BY <1>1, InsertMeans
  <1>3. i = k + 2
    <2>1. k = 0 => 2 = k + 2
      OBVIOUS
    <2> QED
      BY <1>2, <2>1, Zenon
  <1> HIDE DEF i
  <1>4. /\ ReadsAt(u, 2) /\ ~(Len(u) < 4)
        /\ c[(k + 2) + 1].text = u[3].text
        /\ ColsAt(c, k + 2) = ColsAt(u, 2)
        /\ Rows(c, ValuesAt(c, k + 2) + 1) = Rows(u, ValuesAt(u, 2) + 1)
    BY <1>2, <1>3, ReadsAlike
  <1>5. Puts(InsertPlan(u), u, 2)
    <2>1. 2 = IF IsWord(u, 2, "approx_hint") THEN HintEnd(u) + 6 ELSE 2
      BY Zenon
    <2> QED
      BY <1>4, <2>1, InsertMeans
  <1>6. PlanOf(u) = InsertPlan(u)
    <2>1. 1 \in DOMAIN u
      <3>1. Len(u) >= 1 /\ Len(u) \in Nat /\ DOMAIN u = 1..Len(u)
        BY WindowType
      <3> QED
        BY <3>1
    <2>2. IsWord(u, 1, "insert")
      BY <1>1, <2>1, Zenon DEF IsWord, IsKind
    <2> QED
      BY <2>2, PlanAtInsert
  <1>7. 2 + 1 = 3
    OBVIOUS
  <1> QED
    BY <1>1, <1>2, <1>3, <1>4, <1>5, <1>6, <1>7, Zenon DEF Puts

\* The first statement, in a text
LEMMA FirstStands ==
    ASSUME NEW s, IsScript(s), Len(s) # 0
    PROVE  LET T == Tokenize(TextOf(s))
               u == Tokenize(s[1].meant)
               h == Tokenize(s[1].hint)
           IN  /\ NoSemicolon(u) /\ T[1] = u[1]
               /\ s[1].hint = <<>> => Window(T, 0, u)
               /\ s[1].hint # <<>> =>
                     /\ h \in Seq(Token) /\ IsHint(h) /\ Within(T, h, Len(h))
                     /\ IsWord(T, 2, "approx_hint") /\ Window(T, Len(h), u)
  <1> DEFINE T == Tokenize(TextOf(s))
             u == Tokenize(s[1].meant)
             h == Tokenize(s[1].hint)
             w == Tokenize(Written(s[1]))
  <1>1. PICK ts : Accumulates(ts, AsWritten(s)) /\ ts[Len(s)] = T
    BY ScriptText
  <1>2. Len(s) \in Nat /\ Len(s) >= 1 /\ IsStatement(s[1]) /\ 1 \in 1..Len(s)
        /\ Len(s) \in 1..Len(s)
    BY DEF IsScript
  <1>3. Begins(T, w)
    <2>1. AreStatements(AsWritten(s)) /\ Len(AsWritten(s)) = Len(s)
      BY ScriptStatements
    <2>2. Begins(T, AsWritten(s)[1])
      BY <1>1, <1>2, <2>1, ScriptBegins
    <2>3. AsWritten(s)[1] = w
      BY <1>2 DEF AsWritten
    <2> QED
      BY <2>2, <2>3
  <1>4. /\ u \in Seq(Token) /\ u # <<>> /\ NoSemicolon(u) /\ h \in Seq(Token)
        /\ s[1].hint = <<>> => w = u
        /\ s[1].hint # <<>> => u[1] = Insert /\ IsHint(h) /\ Hinted(w, u, h)
    BY <1>2, StatementIs
  <1> HIDE DEF T, u, h, w
  <1>5. /\ T \in Seq(Token) /\ w \in Seq(Token) /\ Len(w) <= Len(T)
        /\ \A i \in 1..Len(w) : T[i] = w[i]
        /\ Len(T) > Len(w) => T[Len(w) + 1] = Semi
    BY <1>3, Zenon DEF Begins
  <1>6. /\ Len(T) \in Nat /\ Len(w) \in Nat /\ Len(u) \in Nat /\ Len(h) \in Nat
        /\ Len(u) >= 1
    <2>1. \A q \in Seq(Token) : Len(q) \in Nat /\ (q # <<>> => Len(q) >= 1)
      OBVIOUS
    <2> QED
      BY <1>4, <1>5, <2>1, Zenon
  <1>7. CASE s[1].hint = <<>>
    <2>1. w = u
      BY <1>4, <1>7
    <2>2. T[1] = u[1]
      BY <1>5, <1>6, <2>1
    <2>3. \A n \in 2..Len(u) : T[0 + n] = u[n]
      BY <1>5, <1>6, <2>1
    <2>4. 0 + Len(u) < Len(T) => T[0 + Len(u) + 1] = Semi
      BY <1>5, <1>6, <2>1
    <2>5. 0 \in Nat /\ 0 + Len(u) <= Len(T)
      BY <1>5, <1>6, <2>1
    <2>6. Window(T, 0, u)
      BY <1>4, <1>5, <1>6, <2>3, <2>4, <2>5, Zenon DEF Window
    <2> QED
      BY <1>4, <1>7, <2>2, <2>6, Zenon DEF T, u
  <1>8. CASE s[1].hint # <<>>
    <2>1. /\ Len(w) = Len(u) + Len(h) /\ w[1] = u[1]
          /\ \A i \in 1..Len(h) : w[1 + i] = h[i]
          /\ \A i \in 2..Len(u) : w[Len(h) + i] = u[i]
      BY <1>4, <1>8, Zenon DEF Hinted
    <2>2. T[1] = u[1]
      BY <1>5, <1>6, <2>1
    <2>3. Within(T, h, Len(h))
      <3>1. ASSUME NEW i \in 1..Len(h) PROVE T[1 + i] = h[i]
        <4>1. 1 + i \in 1..Len(w)
          BY <1>6, <2>1
        <4> QED
          BY <1>5, <2>1, <4>1, Zenon
      <3> QED
        BY <3>1, Zenon DEF Within
    <2>4. Window(T, Len(h), u)
      <3>1. ASSUME NEW n \in 2..Len(u) PROVE T[Len(h) + n] = u[n]
        <4>1. Len(h) + n \in 1..Len(w)
          BY <1>6, <2>1
        <4> QED
          BY <1>5, <2>1, <4>1, Zenon
      <3>2. Len(h) + Len(u) < Len(T) => T[Len(h) + Len(u) + 1] = Semi
        BY <1>5, <1>6, <2>1
      <3>3. Len(h) + Len(u) <= Len(T)
        BY <1>5, <1>6, <2>1
      <3> QED
        BY <1>4, <1>5, <1>6, <3>1, <3>2, <3>3, Zenon DEF Window
    <2>5. IsWord(T, 2, "approx_hint")
      <3>1. IsWord(w, 2, "approx_hint")
        BY <1>4, <1>8, HintedFirst
      <3>2. 2 \in 1..Len(w) /\ 2 \in 1..Len(T) /\ DOMAIN T = 1..Len(T) /\ DOMAIN w = 1..Len(w)
        <4>1. 2 \in DOMAIN w
          BY <3>1, Zenon DEF IsWord, IsKind
        <4> QED
          BY <1>5, <1>6, <4>1
      <3> QED
        BY <1>5, <3>1, <3>2, Zenon DEF IsWord, IsKind
    <2> QED
      BY <1>4, <1>8, <2>2, <2>3, <2>4, <2>5, Zenon DEF T, u, h
  <1> QED
    BY <1>7, <1>8

\* What the planner reads of an INSERT .. VALUES - its table, its columns, its
\* rows - is what it reads of that statement alone, whatever hint stands in it
\* and whatever statements stand behind it in the text, if the statement closes
\* its parentheses (parse_insert_values_plan).
THEOREM InsertReadAlone ==
    ASSUME NEW s, IsScript(s), Len(s) # 0,
           Nested(Tokenize(s[1].meant)),
           ~IsWord(Tokenize(s[1].meant), 2, "approx_hint"),
           PlanOf(Tokenize(TextOf(s))).kind = "values"
    PROVE  LET alone == PlanOf(Tokenize(s[1].meant))
               read == PlanOf(Tokenize(TextOf(s)))
           IN  /\ alone.kind = "values" /\ alone.table = read.table
               /\ alone.cols = read.cols /\ alone.rows = read.rows
  <1> DEFINE T == Tokenize(TextOf(s))
             u == Tokenize(s[1].meant)
             h == Tokenize(s[1].hint)
  <1>1. /\ NoSemicolon(u) /\ T[1] = u[1]
        /\ s[1].hint = <<>> => Window(T, 0, u)
        /\ s[1].hint # <<>> =>
              /\ h \in Seq(Token) /\ IsHint(h) /\ Within(T, h, Len(h))
              /\ IsWord(T, 2, "approx_hint") /\ Window(T, Len(h), u)
    BY FirstStands
  <1>2. Nested(u) /\ ~IsWord(u, 2, "approx_hint") /\ PlanOf(T).kind = "values"
    OBVIOUS
  <1> HIDE DEF T, u, h
  <1>3. CASE s[1].hint = <<>>
    <2>1. Window(T, 0, u)
      BY <1>1, <1>3
    <2>2. ~IsWord(T, 2, "approx_hint")
      <3>1. 2 \in 2..Len(u) + 1 /\ 0 + 2 = 2
        BY <2>1, WindowType
      <3>2. "identifier" # "other"
        BY Zenon
      <3>3. IsWord(T, 0 + 2, "approx_hint") <=> IsWord(u, 2, "approx_hint")
        BY <2>1, <3>1, <3>2, KindAlike
      <3> QED
        BY <1>2, <3>1, <3>3
    <2> QED
      BY <1>1, <1>2, <2>1, <2>2, InsertAlike DEF T, u
  <1>4. CASE s[1].hint # <<>>
    <2>1. /\ h \in Seq(Token) /\ IsHint(h) /\ Within(T, h, Len(h))
          /\ IsWord(T, 2, "approx_hint") /\ Window(T, Len(h), u)
      BY <1>1, <1>4
    <2>2. HintRead(T) => HintEnd(T) + 6 = Len(h) + 2
      <3>1. T \in Seq(Token)
        BY <2>1, WindowType
      <3> QED
        BY <2>1, <3>1, HintEnds
    <2> QED
      BY <1>1, <1>2, <2>1, <2>2, InsertAlike DEF T, u
  <1> QED
    BY <1>3, <1>4

\* A statement that begins with INSERT is annotated as the planner reads it
\* when it is sent alone, and closes its parentheses; a hint, if any, is in
\* its field.
ReadAsMeant(s) ==
    LET u == Tokenize(s.meant)
        alone == PlanOf(u)
    IN  IsWord(u, 1, "insert") =>
            /\ Nested(u) /\ ~IsWord(u, 2, "approx_hint")
            /\ alone.kind = "values" /\ ~s.quoted =>
                  alone.table = s.into /\ alone.cols = s.cols /\ alone.rows = s.rows

\* There is no plan, or it is that of the present call.
Told == (script = NoScript /\ plan = NoPlan) \/ Planned

LEMMA SpecTold == Spec => []Told
  <1>1. Init => Told
    BY DEF Init, Told
  <1>2. Told /\ [Next]_vars => Told'
    <2>1. ASSUME Told, script' = script, plan' = plan PROVE Told'
      BY <2>1 DEF Told, Planned
    <2>2. ASSUME NextLine PROVE Told'
      BY <2>2 DEF NextLine, Told
    <2>3. ASSUME Exec PROVE Told'
      BY <2>3, Zenon DEF Exec, Told, Planned
    <2>4. ASSUME Next, ~NextLine, ~Exec PROVE script' = script /\ plan' = plan
      BY <2>4 DEF Next, ClientStep, CallStep, OpenSucceeds, OpenFails, SkipLine, Misuse,
                  Leave, Refuse, UseSketch, Query, RunStatement, StatementFails, HaveResult,
                  AbortRows, QueryFails, RowsEndHere, EmitAnswer, Stream, Finish, call
    <2>5. UNCHANGED vars => script' = script /\ plan' = plan
      BY DEF vars
    <2> QED
      BY <2>1, <2>2, <2>3, <2>4, <2>5
  <1> QED
    BY <1>1, <1>2, PTL DEF Spec

\* If every INSERT that stands first in a script is read as its author means it
\* when it is sent alone, then it is so read in every call, with its hint and
\* with whatever follows it: the values of a plan are in their places
\* (parse_insert_values_plan, parse_insert_row).
THEOREM SpecValuesInPlace ==
    ASSUME \A s \in Scripts : s # <<>> => ReadAsMeant(s[1])
    PROVE  Spec => []ValuesInPlace
  <1>1. ASSUME Told PROVE ValuesInPlace
    <2> DEFINE T == Tokenize(TextOf(script))
               u == Tokenize(script[1].meant)
    <2>1. SUFFICES ASSUME plan.kind = "values", ~script[1].quoted
                   PROVE  InPlace(script[1])
      BY DEF ValuesInPlace
    <2>2. script \in Scripts /\ plan = PlanOf(T)
      <3>1. NoPlan.kind # "values"
        BY DEF NoPlan, ExactPlan
      <3> QED
        BY <1>1, <2>1, <3>1 DEF Told, Planned
    <2>3. IsScript(script)
      BY <2>2, ScriptsAssumption DEF IsScript
    <2>4. IsWord(T, 1, "insert")
      BY <2>1, <2>2, PlanAtInsert
    <2>5. Len(script) # 0 /\ script # <<>>
      <3>1. ASSUME Len(script) = 0 PROVE FALSE
        <4>1. T = <<>>
          BY <2>3, <3>1, EmptyScript
        <4> HIDE DEF T
        <4>2. 1 \notin DOMAIN T
          BY <4>1
        <4> QED
          BY <2>4, <4>2, Zenon DEF IsWord, IsKind
      <3> QED
        BY <3>1
    <2>6. IsWord(u, 1, "insert")
      <3>1. T[1] = u[1]
        BY <2>3, <2>5, FirstStands
      <3>2. u \in Seq(Token) /\ u # <<>>
        BY <2>3, <2>5, StatementIs DEF IsScript
      <3> HIDE DEF T, u
      <3>3. 1 \in DOMAIN u
        BY <3>2
      <3> QED
        BY <2>4, <3>1, <3>3, Zenon DEF IsWord, IsKind
    <2>7. /\ Nested(u) /\ ~IsWord(u, 2, "approx_hint")
          /\ PlanOf(u).kind = "values" =>
                /\ PlanOf(u).table = script[1].into
                /\ PlanOf(u).cols = script[1].cols /\ PlanOf(u).rows = script[1].rows
      BY <2>1, <2>2, <2>5, <2>6, Zenon DEF ReadAsMeant
    <2>8. /\ PlanOf(u).kind = "values" /\ PlanOf(u).table = plan.table
          /\ PlanOf(u).cols = plan.cols /\ PlanOf(u).rows = plan.rows
      BY <2>1, <2>2, <2>3, <2>5, <2>7, InsertReadAlone
    <2> QED
      BY <2>7, <2>8, Zenon DEF InPlace
  <1> QED
    BY <1>1, SpecTold, PTL

-----------------------------------------------------------------------------
(* The call that stands first in a text *)

\* The text c begins with the statement u.
Leads(c, u) == Window(c, 0, u) /\ c[1] = u[1]

LEMMA LeadsType ==
    ASSUME NEW c, NEW u, Leads(c, u)
    PROVE  /\ c \in Seq(Token) /\ u \in Seq(Token)
           /\ Len(u) \in Nat /\ Len(c) \in Nat /\ Len(u) >= 1 /\ Len(u) <= Len(c)
           /\ DOMAIN u = 1..Len(u) /\ DOMAIN c = 1..Len(c)
           /\ \A n \in 1..Len(u) : c[n] = u[n]
           /\ \A n \in 2..Len(u) + 1 : \A kind : kind # "other" =>
                 /\ IsKind(c, n, kind) <=> IsKind(u, n, kind)
                 /\ IsKind(u, n, kind) => n \in 2..Len(u)
  <1>1. /\ c \in Seq(Token) /\ u \in Seq(Token)
        /\ Len(u) \in Nat /\ Len(c) \in Nat /\ Len(u) >= 1 /\ 0 + Len(u) <= Len(c)
        /\ DOMAIN u = 1..Len(u) /\ DOMAIN c = 1..Len(c)
        /\ \A n \in 2..Len(u) : c[0 + n] = u[n]
    BY WindowType DEF Leads
  <1>2. \A n \in 1..Len(u) : c[n] = u[n]
    <2>1. ASSUME NEW n \in 1..Len(u) PROVE c[n] = u[n]
      <3>1. n = 1 \/ (n \in 2..Len(u) /\ 0 + n = n)
        BY <1>1
      <3>2. c[1] = u[1]
        BY DEF Leads
      <3> QED
        BY <1>1, <3>1, <3>2
    <2> QED
      BY <2>1
  <1>3. ASSUME NEW n \in 2..Len(u) + 1, NEW kind, kind # "other"
        PROVE  /\ IsKind(c, n, kind) <=> IsKind(u, n, kind)
               /\ IsKind(u, n, kind) => n \in 2..Len(u)
    <2>1. 0 + n = n /\ Window(c, 0, u)
      BY <1>1 DEF Leads
    <2>2. /\ IsKind(c, 0 + n, kind) <=> IsKind(u, n, kind)
          /\ IsKind(u, n, kind) => n \in 2..Len(u)
      BY <1>3, <2>1, KindAlike
    <2> QED
      BY <2>1, <2>2
  <1>4. Len(u) <= Len(c)
    BY <1>1
  <1> QED
    BY <1>1, <1>2, <1>3, <1>4

LEMMA FirstCallAlike ==
    ASSUME NEW c, NEW u, Leads(c, u), Calls(u) # {}
    PROVE  LET f == First(Calls(u), Len(u))
           IN  /\ Calls(c) # {} /\ First(Calls(c), Len(c)) = f
               /\ f \in Calls(u) /\ f \in 1..Len(u) /\ f + 1 \in 2..Len(u)
               /\ u[f + 1].kind = "left_paren"
  <1> DEFINE f == First(Calls(u), Len(u))
  <1>1. /\ c \in Seq(Token) /\ u \in Seq(Token)
        /\ Len(u) \in Nat /\ Len(c) \in Nat /\ Len(u) >= 1 /\ Len(u) <= Len(c)
        /\ DOMAIN u = 1..Len(u) /\ DOMAIN c = 1..Len(c)
        /\ \A n \in 1..Len(u) : c[n] = u[n]
        /\ \A n \in 2..Len(u) + 1 : \A kind : kind # "other" =>
              /\ IsKind(c, n, kind) <=> IsKind(u, n, kind)
              /\ IsKind(u, n, kind) => n \in 2..Len(u)
    BY LeadsType
  <1>2. /\ Calls(u) \in SUBSET (1..Len(u)) /\ Calls(u) \in SUBSET Nat
        /\ Calls(c) \in SUBSET Nat
    BY <1>1, CallsType
  <1>3. /\ Len(u) \in Nat /\ Len(c) \in Nat /\ Len(u) >= 1 /\ Len(u) <= Len(c)
    BY <1>1, Zenon
  <1>4. "left_paren" # "other" /\ "dot" # "other"
    BY Zenon
  <1>5. ASSUME NEW n \in 1..Len(u) PROVE n \in Calls(c) <=> n \in Calls(u)
    <2>1. n + 1 \in 2..Len(u) + 1 /\ n \in DOMAIN c /\ n \in DOMAIN u /\ c[n] = u[n]
      BY <1>1
    <2>2. IsKind(c, n + 1, "left_paren") <=> IsKind(u, n + 1, "left_paren")
      BY <1>1, <1>4, <2>1, Zenon
    <2>3. IsKind(c, n - 1, "dot") <=> IsKind(u, n - 1, "dot")
      <3>1. /\ n - 1 \in DOMAIN c <=> n - 1 \in DOMAIN u
            /\ n - 1 \in DOMAIN u => c[n - 1] = u[n - 1]
        BY <1>1
      <3> QED
        BY <3>1, Zenon DEF IsKind
    <2> QED
      BY <2>1, <2>2, <2>3, Zenon DEF Calls
  <1>6. /\ f \in Calls(u) \cup {Len(u)}
        /\ \A m \in Calls(u) \cup {Len(u)} : f <= m
    BY <1>1, <1>2, FirstIs
  <1> HIDE DEF f
  <1>7. f \in Calls(u) /\ f \in 1..Len(u)
    <2>1. PICK m \in Calls(u) : TRUE
      OBVIOUS
    <2>2. m \in 1..Len(u) /\ f <= m /\ f \in Nat
      BY <1>1, <1>2, <1>6, <2>1
    <2>3. f = Len(u) => m = Len(u)
      BY <1>3, <2>2
    <2> QED
      BY <1>2, <1>6, <2>1, <2>3
  <1>8. f \in Calls(c)
    BY <1>5, <1>7
  <1>9. First(Calls(c), Len(c)) = f
    <2>1. ASSUME NEW m \in Calls(c) \cup {Len(c)} PROVE f <= m
      <3>1. m \in Nat
        BY <1>2, <1>3, <2>1
      <3>2. CASE m > Len(u)
        BY <1>7, <1>3, <3>1, <3>2
      <3>3. CASE ~(m > Len(u))
        <4>1. CASE m = Len(c)
          BY <1>7, <1>3, <3>1, <4>1
        <4>2. CASE m # Len(c)
          <5>1. m \in Calls(c)
            BY <2>1, <4>2
          <5>2. m \in 1..Len(u)
            <6>1. m \in 1..Len(c)
              BY <1>1, <5>1, CallsType
            <6> QED
              BY <1>3, <3>3, <6>1
          <5>3. m \in Calls(u)
            BY <1>5, <5>1, <5>2
          <5> QED
            BY <1>6, <5>3
        <4> QED
          BY <4>1, <4>2
      <3> QED
        BY <3>2, <3>3
    <2>2. f \in Calls(c) \cup {Len(c)} /\ Len(c) \in Nat
      BY <1>1, <1>8
    <2> QED
      BY <1>2, <2>1, <2>2, FirstUnique
  <1>10. IsKind(u, f + 1, "left_paren")
    BY <1>7, Zenon DEF Calls
  <1>11. f + 1 \in 2..Len(u) + 1
    BY <1>7, <1>3
  <1>12. f + 1 \in 2..Len(u)
    BY <1>1, <1>4, <1>10, <1>11, Zenon
  <1>13. u[f + 1].kind = "left_paren"
    BY <1>10, Zenon DEF IsKind
  <1> QED
    BY <1>7, <1>8, <1>9, <1>12, <1>13, Zenon DEF f

LEMMA ArgumentsAlike ==
    ASSUME NEW c, NEW u, Leads(c, u), Nested(u), NEW l \in 2..Len(u),
           u[l].kind = "left_paren"
    PROVE  /\ MatchingParen(u, l) \in l + 1..Len(u)
           /\ MatchingParen(c, l) = MatchingParen(u, l)
           /\ Commas(c, l, MatchingParen(u, l)) = Commas(u, l, MatchingParen(u, l))
           /\ Commas(u, l, MatchingParen(u, l)) \in Seq(l + 1..MatchingParen(u, l) - 1)
  <1> DEFINE r == MatchingParen(u, l)
             p == Commas(u, l, r)
             q == Commas(c, l, r)
  <1>1. /\ c \in Seq(Token) /\ u \in Seq(Token)
        /\ Len(u) \in Nat /\ Len(c) \in Nat /\ Len(u) >= 1 /\ Len(u) <= Len(c)
    BY LeadsType
  <1>2. l \in 1..Len(u) /\ Window(c, 0, u) /\ 0 + l = l
    BY <1>1 DEF Leads
  <1>3. r \in l + 1..Len(u)
    BY <1>1, <1>2, Closes
  <1>4. MatchingParen(c, l) = r
    <2>1. r <= Len(u) /\ 0 + r = r
      <3> HIDE DEF r
      <3> QED
        BY <1>1, <1>3
    <2>2. MatchingParen(c, 0 + l) = 0 + r
      BY <1>2, <2>1, MatchingAlike
    <2> QED
      BY <1>2, <2>1, <2>2, Zenon
  <1> HIDE DEF r
  <1>5. /\ r \in l..Len(u) /\ l \in 1..Len(c) /\ r \in l..Len(c) /\ 0 + r = r
    BY <1>1, <1>2, <1>3
  <1> HIDE DEF p, q
  <1>6. /\ p \in Seq(l + 1..r - 1) /\ q \in Seq(l + 1..r - 1)
    <2>1. p \in Seq(l + 1..r - 1)
      BY <1>1, <1>2, <1>5, CommasType DEF p
    <2>2. q \in Seq(l + 1..r - 1)
      BY <1>1, <1>2, <1>5, CommasType DEF q
    <2> QED
      BY <2>1, <2>2
  <1>7. PICK k : k = 0
    OBVIOUS
  <1>8. Len(q) = Len(p) /\ \A n \in 1..Len(p) : q[n] = k + p[n]
    <2>1. k + l = l /\ k + r = r
      BY <1>2, <1>5, <1>7, Zenon
    <2>2. Window(c, k, u)
      BY <1>2, <1>7
    <2>3. /\ Len(Commas(c, k + l, k + r)) = Len(Commas(u, l, r))
          /\ \A n \in 1..Len(Commas(u, l, r)) :
                Commas(c, k + l, k + r)[n] = k + Commas(u, l, r)[n]
      <3>1. l \in 2..Len(u) /\ r \in l..Len(u)
        BY <1>5
      <3> QED
        BY ONLY <2>2, <3>1, CommasMove
    <2> QED
      BY <2>1, <2>3, Zenon DEF p, q
  <1>9. \A n \in 1..Len(p) : q[n] = p[n]
    <2>1. ASSUME NEW n \in 1..Len(p) PROVE q[n] = p[n]
      <3> DEFINE S == l + 1..r - 1
      <3>1. p[n] \in S
        <4>1. p \in Seq(S)
          BY <1>6
        <4> HIDE DEF S
        <4> QED
          BY <4>1
      <3>2. p[n] \in Int
        BY <3>1
      <3> QED
        BY <1>7, <1>8, <3>2
    <2> QED
      BY <2>1
  <1>10. q = p
    BY <1>6, <1>8, <1>9, SeqEqual
  <1> QED
    BY <1>3, <1>4, <1>6, <1>10 DEF r, p, q

\* What parse_approx_arguments wants of the tokens between the parentheses f + 1
\* and r, with commas at places
Accepted(ts, f, r, places) ==
    LET function == ts[f].text
        e == IF function \in {"approx_freq", "approx_top_k"} THEN 2 ELSE 1
    IN  /\ Len(places) = e + 1
        /\ places[1] > f + 2
        /\ function = "approx_freq" =>
              Single(ts, places[1] + 1, places[2] - 1)
        /\ function = "approx_top_k" =>
              /\ places[2] = places[1] + 2
              /\ ts[places[1] + 1].kind = "number"
              /\ ts[places[1] + 1].text \in Counts
        /\ UnitArgument(ts, places[e], places[e + 1])
        /\ UnitArgument(ts, places[e + 1], r)

LEMMA CallReadIs ==
    \A ts, f : CallRead(ts, f) <=>
        /\ MatchingParen(ts, f + 1) <= Len(ts)
        /\ Accepted(ts, f, MatchingParen(ts, f + 1),
                    Commas(ts, f + 1, MatchingParen(ts, f + 1)))
  BY DEF CallRead, Accepted

\* It depends on nothing else.
LEMMA AcceptedAlike ==
    ASSUME NEW a, NEW b, NEW f \in Nat, NEW r \in Nat, f >= 1,
           \A n \in f..r : a[n] = b[n],
           NEW places \in Seq(f + 2..r - 1), f < r, Accepted(a, f, r, places)
    PROVE  Accepted(b, f, r, places)
  <1> DEFINE e == IF a[f].text \in {"approx_freq", "approx_top_k"} THEN 2 ELSE 1
  <1>1. a[f] = b[f]
    <2>1. f \in f..r
      OBVIOUS
    <2> QED
      BY <2>1
  <1>2. /\ Len(places) = e + 1 /\ places[1] > f + 2
        /\ a[f].text = "approx_freq" => Single(a, places[1] + 1, places[2] - 1)
        /\ a[f].text = "approx_top_k" =>
              /\ places[2] = places[1] + 2
              /\ a[places[1] + 1].kind = "number"
              /\ a[places[1] + 1].text \in Counts
        /\ UnitArgument(a, places[e], places[e + 1])
        /\ UnitArgument(a, places[e + 1], r)
    BY Zenon DEF Accepted
  <1>3. e \in {1, 2}
    BY Zenon
  <1> HIDE DEF e
  <1>4. /\ \A n \in 1..e + 1 : places[n] \in Int /\ f <= places[n] + 1 /\ places[n] + 1 <= r
        /\ 1 \in 1..e + 1 /\ e \in 1..e + 1 /\ e + 1 \in 1..e + 1
    BY <1>2, <1>3
  <1>5. \A n \in 1..e + 1 : a[places[n] + 1] = b[places[n] + 1]
    <2>1. ASSUME NEW n \in 1..e + 1 PROVE places[n] + 1 \in f..r
      BY <1>4
    <2> QED
      BY <2>1
  <1>6. /\ UnitArgument(b, places[e], places[e + 1])
        /\ UnitArgument(b, places[e + 1], r)
    BY <1>2, <1>4, <1>5, Zenon DEF UnitArgument
  <1>7. a[f].text = "approx_freq" => Single(b, places[1] + 1, places[2] - 1)
    BY <1>2, <1>4, <1>5, Zenon DEF Single
  <1>8. a[f].text = "approx_top_k" =>
              /\ places[2] = places[1] + 2
              /\ b[places[1] + 1].kind = "number"
              /\ b[places[1] + 1].text \in Counts
    BY <1>2, <1>4, <1>5, Zenon
  <1>9. e = IF b[f].text \in {"approx_freq", "approx_top_k"} THEN 2 ELSE 1
    BY <1>1, Zenon DEF e
  <1> QED
    BY <1>1, <1>2, <1>6, <1>7, <1>8, <1>9, Zenon DEF Accepted

LEMMA CallReadAlike ==
    ASSUME NEW c, NEW u, Leads(c, u), Nested(u), NEW f \in 1..Len(u),
           f + 1 \in 2..Len(u), u[f + 1].kind = "left_paren"
    PROVE  CallRead(c, f) <=> CallRead(u, f)
  <1> DEFINE r == MatchingParen(u, f + 1)
             p == Commas(u, f + 1, r)
  <1>1. /\ Len(u) \in Nat /\ Len(c) \in Nat /\ Len(u) <= Len(c)
        /\ \A n \in 1..Len(u) : c[n] = u[n]
    BY LeadsType
  <1>2. /\ r \in (f + 1) + 1..Len(u) /\ MatchingParen(c, f + 1) = r
        /\ Commas(c, f + 1, r) = p /\ p \in Seq((f + 1) + 1..r - 1)
    BY ArgumentsAlike
  <1>3. /\ CallRead(u, f) <=> r <= Len(u) /\ Accepted(u, f, r, p)
        /\ CallRead(c, f) <=> r <= Len(c) /\ Accepted(c, f, r, p)
    BY <1>2, CallReadIs, Zenon
  <1> HIDE DEF r, p
  <1>4. /\ r \in Nat /\ f \in Nat /\ f >= 1 /\ f < r /\ r <= Len(u) /\ r <= Len(c)
        /\ (f + 1) + 1 = f + 2
    BY <1>1, <1>2
  <1>5. \A n \in f..r : c[n] = u[n] /\ u[n] = c[n]
    BY <1>1, <1>4
  <1>6. p \in Seq(f + 2..r - 1)
    BY <1>2, <1>4, Zenon
  <1>7. Accepted(u, f, r, p) <=> Accepted(c, f, r, p)
    BY <1>4, <1>5, <1>6, AcceptedAlike
  <1> QED
    BY <1>3, <1>4, <1>7

\* What the planner has for a name that it does not find
Nameless == ""

LEMMA SourceAlike ==
    ASSUME NEW c, NEW u, Leads(c, u), NEW a \in Nat, SourceTable(u, a) # Nameless
    PROVE  SourceTable(c, a) = SourceTable(u, a)
  <1> DEFINE Found(ts, n) == IsWord(ts, n, "from") /\ ts[n + 1].kind = "identifier"
             ns == {n \in a..Len(u) - 1 : Found(u, n)}
             ms == {n \in a..Len(c) - 1 : Found(c, n)}
             f == First(ns, Len(u))
             g == First(ms, Len(c))
  <1>1. Len(u) \in Nat /\ Len(c) \in Nat /\ Len(u) >= 1 /\ Len(u) <= Len(c)
    BY LeadsType
  <1>2. ns \in SUBSET Nat /\ ms \in SUBSET Nat
    <2> HIDE DEF Found
    <2> QED
      BY <1>1
  <1>3. /\ SourceTable(u, a) = IF f < Len(u) THEN u[f + 1].text ELSE Nameless
        /\ SourceTable(c, a) = IF g < Len(c) THEN c[g + 1].text ELSE Nameless
    BY Zenon DEF SourceTable, Nameless
  <1>4. f \in ns \cup {Len(u)} /\ \A m \in ns \cup {Len(u)} : f <= m
    BY <1>1, <1>2, FirstIs
  <1> HIDE DEF f
  <1>5. f < Len(u) /\ f \in ns
    <2>1. f < Len(u)
      BY <1>3, Zenon
    <2>2. f # Len(u)
      <3> HIDE DEF ns
      <3> QED
        BY <1>1, <2>1
    <2> QED
      BY <1>4, <2>1, <2>2, Zenon
  <1>6. f \in a..Len(u) - 1 /\ Found(u, f)
    BY <1>5, Zenon
  <1>7. \A n \in 1..Len(u) - 1 : Found(c, n) <=> Found(u, n)
    <2>1. ASSUME NEW n \in 1..Len(u) - 1 PROVE Found(c, n) <=> Found(u, n)
      <3>1. n \in 1..Len(u) /\ n + 1 \in 1..Len(u) /\ n \in 1..Len(c)
        <4> HIDE DEF Found
        <4> QED
          BY <1>1
      <3>2. /\ DOMAIN u = 1..Len(u) /\ DOMAIN c = 1..Len(c)
            /\ c[n] = u[n] /\ c[n + 1] = u[n + 1]
        BY <3>1, LeadsType, Zenon
      <3> QED
        BY <3>1, <3>2, Zenon DEF IsWord, IsKind
    <2> QED
      BY <2>1
  <1>8. f >= 1 /\ f \in Nat
    <2>1. f \in 1..Len(u)
      <3>1. f \in DOMAIN u
        BY <1>6, Zenon DEF IsWord, IsKind
      <3> QED
        BY <3>1, LeadsType
    <2> QED
      BY <2>1
  <1> HIDE DEF Found
  <1>9. f \in 1..Len(u) - 1 /\ f \in a..Len(c) - 1
    BY <1>1, <1>6, <1>8
  <1>10. f \in ms
    BY <1>6, <1>7, <1>9
  <1>11. \A m \in ms \cup {Len(c)} : f <= m
    <2>1. ASSUME NEW m \in ms \cup {Len(c)} PROVE f <= m
      <3>1. m \in Nat
        <4> HIDE DEF ms
        <4> QED
          BY <1>1, <1>2, <2>1
      <3>2. CASE m > Len(u) - 1
        BY <1>1, <1>9, <3>1, <3>2
      <3>3. CASE ~(m > Len(u) - 1) /\ m >= 1
        <4>1. m \in 1..Len(u) - 1
          BY <1>1, <3>1, <3>3
        <4>2. m # Len(c)
          BY <1>1, <4>1
        <4>3. m \in a..Len(c) - 1 /\ Found(c, m)
          BY <2>1, <4>2
        <4>4. m \in a..Len(u) - 1 /\ Found(u, m)
          BY <1>1, <1>7, <4>1, <4>3
        <4>5. m \in ns
          BY <4>4
        <4> QED
          BY <1>4, <4>5
      <3>4. CASE ~(m >= 1)
        <4>1. m = 0 /\ m # Len(c)
          BY <1>1, <3>1, <3>4
        <4>2. Found(c, m)
          BY <2>1, <4>1
        <4>3. 0 \in DOMAIN c
          BY <4>1, <4>2, Zenon DEF Found, IsWord, IsKind
        <4>4. 0 \in 1..Len(c)
          BY <4>3, LeadsType, Zenon
        <4> QED
          BY <1>1, <4>4
      <3> QED
        BY <3>2, <3>3, <3>4
    <2> QED
      BY <2>1
  <1>12. g = f
    <2> HIDE DEF ms
    <2>1. f \in ms \cup {Len(c)}
      BY <1>10
    <2> QED
      BY <1>1, <1>2, <1>11, <2>1, FirstUnique
  <1>13. g < Len(c) /\ c[g + 1] = u[f + 1]
    <2> HIDE DEF g
    <2>1. f + 1 \in 1..Len(u) /\ f < Len(c)
      BY <1>1, <1>9
    <2>2. c[f + 1] = u[f + 1]
      BY <2>1, LeadsType
    <2> QED
      BY <1>12, <2>1, <2>2
  <1> QED
    BY <1>3, <1>5, <1>13, Zenon

LEMMA ColumnAlike ==
    ASSUME NEW c, NEW u, Leads(c, u), NEW a \in 1..Len(u), NEW b \in a..Len(u)
    PROVE  SimpleColumn(c, a, b) = SimpleColumn(u, a, b)
  <1>1. Len(u) \in Nat /\ \A n \in 1..Len(u) : c[n] = u[n]
    BY LeadsType
  <1>2. /\ a \in 1..Len(u) /\ b \in 1..Len(u)
        /\ b = a + 2 => a + 1 \in 1..Len(u)
    BY <1>1
  <1>3. c[a] = u[a] /\ c[b] = u[b] /\ (b = a + 2 => c[a + 1] = u[a + 1])
    BY <1>1, <1>2, Zenon
  <1> QED
    BY <1>3, Zenon DEF SimpleColumn

LEMMA ApproxMeans ==
    ASSUME NEW ts, NEW f, First(Calls(ts), Len(ts)) = f
    PROVE  LET r == MatchingParen(ts, f + 1)
               made == ApproxPlan(ts)
           IN  /\ made.mode = "approximate" /\ made.function = ts[f].text
               /\ made.error <=> ~CallRead(ts, f)
               /\ CallRead(ts, f) =>
                     /\ made.table = SourceTable(ts, r + 1)
                     /\ made.column = SimpleColumn(ts, f + 2, Commas(ts, f + 1, r)[1] - 1)
  <1> DEFINE r == MatchingParen(ts, f + 1)
             comma == Commas(ts, f + 1, r)[1]
             failed == [ExactPlan(<<>>) EXCEPT !.mode = "approximate", !.error = TRUE,
                                               !.function = ts[f].text]
             sql == <<Name("select")>> \o SubSeq(ts, f + 2, comma - 1)
                       \o <<Name("as"), Name("skdb_hll_value")>>
                       \o SubSeq(ts, r + 1, Len(ts))
             table == SourceTable(ts, r + 1)
             column == SimpleColumn(ts, f + 2, comma - 1)
             good == [failed EXCEPT !.error = FALSE, !.sql = sql, !.table = table,
                                    !.column = column]
  <1>1. ApproxPlan(ts) = IF ~CallRead(ts, f) THEN failed ELSE good
    BY Zenon DEF ApproxPlan
  <1> DEFINE function == ts[f].text
  <1>2. /\ failed.mode = "approximate" /\ failed.function = function /\ failed.error = TRUE
        /\ DOMAIN failed = {"mode", "sql", "invalidates", "kind", "table", "cols", "rows",
                            "warm", "function", "column", "error"}
    <2> HIDE DEF function
    <2> QED
      BY DEF ExactPlan, function
  <1>3. /\ good.mode = "approximate" /\ good.function = function /\ good.error = FALSE
        /\ good.table = table /\ good.column = column
    <2> HIDE DEF failed, sql, table, column, function
    <2> QED
      BY <1>2
  <1> HIDE DEF failed, good
  <1> QED
    BY <1>1, <1>2, <1>3, Zenon

LEMMA PlanAtCall ==
    ASSUME NEW ts
    PROVE  /\ PlanOf(ts).mode = "approximate" =>
                 Calls(ts) # {} /\ ~IsWord(ts, 1, "insert")
           /\ Calls(ts) # {} /\ ~IsWord(ts, 1, "insert") => PlanOf(ts) = ApproxPlan(ts)
  <1>1. "approximate" # "exact"
    BY Zenon
  <1>2. IsWord(ts, 1, "insert") => PlanOf(ts).mode # "approximate"
    BY <1>1, InsertFacts, Zenon DEF PlanOf
  <1> QED
    BY <1>2, PlanFacts, Zenon DEF PlanOf

\* What the planner reads of a call that stands first in a text - its function,
\* whether its arguments are right, its column and its table - is what it reads
\* of that statement alone, whatever stands behind it, if the statement closes
\* its parentheses.  (One that names no table takes the table of a later
\* statement.)  parse_approx_function, parse_approx_arguments
THEOREM CallReadAlone ==
    ASSUME NEW s, IsScript(s), Len(s) # 0,
           Nested(Tokenize(s[1].meant)),
           PlanOf(Tokenize(s[1].meant)).mode = "approximate"
    PROVE  LET alone == PlanOf(Tokenize(s[1].meant))
               read == PlanOf(Tokenize(TextOf(s)))
           IN  /\ read.mode = "approximate" /\ read.function = alone.function
               /\ read.error <=> alone.error
               /\ ~alone.error =>
                     /\ read.column = alone.column
                     /\ alone.table # Nameless => read.table = alone.table
  <1> DEFINE c == Tokenize(TextOf(s))
             u == Tokenize(s[1].meant)
  <1>1. Nested(u) /\ PlanOf(u).mode = "approximate"
    OBVIOUS
  <1>2. Calls(u) # {} /\ ~IsWord(u, 1, "insert") /\ PlanOf(u) = ApproxPlan(u)
    BY <1>1, PlanAtCall
  <1>3. Leads(c, u)
    <2>1. s[1].hint = <<>>
      <3>1. ASSUME s[1].hint # <<>> PROVE FALSE
        <4>1. u[1] = Insert /\ u # <<>> /\ u \in Seq(Token)
          BY <3>1, StatementIs DEF IsScript
        <4> HIDE DEF u
        <4>2. 1 \in DOMAIN u
          BY <4>1
        <4>3. IsWord(u, 1, "insert")
          BY <4>1, <4>2, InsertIs, Zenon DEF IsWord, IsKind
        <4> QED
          BY <1>2, <4>3
      <3> QED
        BY <3>1
    <2>2. Window(c, 0, u) /\ c[1] = u[1]
      BY <2>1, FirstStands
    <2> HIDE DEF c, u
    <2> QED
      BY <2>2 DEF Leads
  <1> HIDE DEF c, u
  <1> DEFINE f == First(Calls(u), Len(u))
             r == MatchingParen(u, f + 1)
             comma == Commas(u, f + 1, r)[1]
  <1>4. /\ Calls(c) # {} /\ First(Calls(c), Len(c)) = f
        /\ f \in 1..Len(u) /\ f + 1 \in 2..Len(u) /\ u[f + 1].kind = "left_paren"
    BY <1>2, <1>3, FirstCallAlike
  <1> HIDE DEF f
  <1>5. /\ Len(u) \in Nat /\ Len(u) >= 1 /\ c[1] = u[1] /\ c[f] = u[f]
        /\ 1 \in DOMAIN u
    <2>1. /\ Len(u) \in Nat /\ Len(u) >= 1 /\ DOMAIN u = 1..Len(u)
          /\ \A n \in 1..Len(u) : c[n] = u[n]
      BY <1>3, LeadsType, Zenon
    <2>2. 1 \in 1..Len(u)
      BY <2>1
    <2> QED
      BY <1>4, <2>1, <2>2, Zenon
  <1>6. PlanOf(c) = ApproxPlan(c)
    <2>1. ~IsWord(c, 1, "insert")
      BY <1>2, <1>5, Zenon DEF IsWord, IsKind
    <2> QED
      BY <1>4, <2>1, PlanAtCall
  <1>7. /\ r \in (f + 1) + 1..Len(u) /\ MatchingParen(c, f + 1) = r
        /\ Commas(c, f + 1, r) = Commas(u, f + 1, r)
        /\ Commas(u, f + 1, r) \in Seq((f + 1) + 1..r - 1)
    BY <1>1, <1>3, <1>4, ArgumentsAlike
  <1>8. CallRead(c, f) <=> CallRead(u, f)
    BY <1>1, <1>3, <1>4, CallReadAlike
  <1>9. /\ ApproxPlan(u).mode = "approximate" /\ ApproxPlan(u).function = u[f].text
        /\ ApproxPlan(u).error <=> ~CallRead(u, f)
        /\ CallRead(u, f) =>
              /\ ApproxPlan(u).table = SourceTable(u, r + 1)
              /\ ApproxPlan(u).column = SimpleColumn(u, f + 2, comma - 1)
    BY ApproxMeans DEF f
  <1>10. /\ ApproxPlan(c).mode = "approximate" /\ ApproxPlan(c).function = c[f].text
         /\ ApproxPlan(c).error <=> ~CallRead(c, f)
         /\ CallRead(c, f) =>
               /\ ApproxPlan(c).table = SourceTable(c, r + 1)
               /\ ApproxPlan(c).column = SimpleColumn(c, f + 2, comma - 1)
    <2>1. LET r_ == MatchingParen(c, f + 1)
          IN  /\ ApproxPlan(c).mode = "approximate" /\ ApproxPlan(c).function = c[f].text
              /\ ApproxPlan(c).error <=> ~CallRead(c, f)
              /\ CallRead(c, f) =>
                    /\ ApproxPlan(c).table = SourceTable(c, r_ + 1)
                    /\ ApproxPlan(c).column =
                          SimpleColumn(c, f + 2, Commas(c, f + 1, r_)[1] - 1)
      BY <1>4, ApproxMeans, Zenon
    <2> QED
      BY <1>7, <2>1, Zenon
  <1>11. CallRead(u, f) => SimpleColumn(c, f + 2, comma - 1) = SimpleColumn(u, f + 2, comma - 1)
    <2> DEFINE q == Commas(u, f + 1, r)
    <2>1. SUFFICES ASSUME CallRead(u, f) PROVE f + 2 \in 1..Len(u) /\ comma - 1 \in f + 2..Len(u)
      <3> HIDE DEF comma
      <3> QED
        BY <1>3, <2>1, ColumnAlike
    <2>2. Accepted(u, f, r, q)
      BY <2>1, CallReadIs, Zenon
    <2>3. /\ Len(q) = 2 \/ Len(q) = 3
          /\ q[1] > f + 2
      <3>1. 1 + 1 = 2 /\ 2 + 1 = 3
        OBVIOUS
      <3> QED
        BY <2>2, <3>1, Zenon DEF Accepted
    <2> HIDE DEF r
    <2>4. q[1] \in (f + 1) + 1..r - 1
      <3> DEFINE S == (f + 1) + 1..r - 1
      <3>1. q \in Seq(S)
        BY <1>7
      <3> HIDE DEF q, S
      <3>2. q[1] \in S
        BY <2>3, <3>1
      <3> QED
        BY <3>2 DEF S
    <2> HIDE DEF q
    <2>5. comma = q[1]
      BY DEF q
    <2> HIDE DEF comma
    <2> QED
      BY <1>4, <1>5, <1>7, <2>3, <2>4, <2>5
  <1>12. SourceTable(u, r + 1) # Nameless => SourceTable(c, r + 1) = SourceTable(u, r + 1)
    <2>1. r + 1 \in Nat
      <3> HIDE DEF r
      <3> QED
        BY <1>4, <1>5, <1>7
    <2> QED
      BY <1>3, <2>1, SourceAlike
  <1> HIDE DEF r, comma
  <1>13. /\ PlanOf(c).mode = "approximate" /\ PlanOf(c).function = PlanOf(u).function
         /\ PlanOf(c).error <=> PlanOf(u).error
         /\ ~PlanOf(u).error =>
               /\ PlanOf(c).column = PlanOf(u).column
               /\ PlanOf(u).table # Nameless => PlanOf(c).table = PlanOf(u).table
    BY <1>2, <1>5, <1>6, <1>8, <1>9, <1>10, <1>11, <1>12, Zenon
  <1> QED
    BY <1>13 DEF c, u

\* A call of an approximate function is annotated as the planner reads it when
\* it is sent alone; it closes its parentheses, and names its table if its
\* arguments are right.
AskedAsMeant(s) ==
    LET u == Tokenize(s.meant)
        alone == PlanOf(u)
    IN  s.asks # "nothing" =>
            /\ Nested(u) /\ alone.mode = "approximate"
            /\ alone.error <=> s.asks = "wrongly"
            /\ ~alone.error => /\ alone.table = s.from /\ alone.table # Nameless
                               /\ alone.column = s.column

\* If every call that stands first in a script is understood when it is sent
\* alone, then it is understood in every text, whatever follows it there
\* (Planner::plan, parse_approx_function).
THEOREM SpecCallsUnderstood ==
    ASSUME \A s \in Scripts : s # <<>> => AskedAsMeant(s[1])
    PROVE  Spec => []CallsUnderstood
  <1>1. ASSUME Told PROVE CallsUnderstood
    <2> DEFINE read == PlanOf(Tokenize(TextOf(script)))
               alone == PlanOf(Tokenize(script[1].meant))
    <2>1. SUFFICES ASSUME script # NoScript, script[1].asks # "nothing"
                   PROVE  /\ Approximate
                          /\ plan.error <=> script[1].asks = "wrongly"
                          /\ ~plan.error => /\ plan.table = script[1].from
                                            /\ plan.column = script[1].column
      BY Zenon DEF CallsUnderstood
    <2>2. script \in Scripts /\ plan = read
      BY <1>1, <2>1, Zenon DEF Told, Planned
    <2>3. IsScript(script) /\ script # <<>> /\ Len(script) # 0
      <3>1. IsScript(script) /\ script # <<>>
        BY <2>1, <2>2, ScriptsAssumption DEF IsScript, NoScript
      <3>2. script \in Seq(StatementType)
        BY <3>1 DEF IsScript
      <3> QED
        BY <3>1, <3>2
    <2>4. /\ Nested(Tokenize(script[1].meant)) /\ alone.mode = "approximate"
          /\ alone.error <=> script[1].asks = "wrongly"
          /\ ~alone.error => /\ alone.table = script[1].from /\ alone.table # Nameless
                             /\ alone.column = script[1].column
      BY <2>1, <2>2, <2>3, Zenon DEF AskedAsMeant
    <2>5. /\ read.mode = "approximate"
          /\ read.error <=> alone.error
          /\ ~alone.error =>
                /\ read.column = alone.column
                /\ alone.table # Nameless => read.table = alone.table
      BY <2>3, <2>4, CallReadAlone
    <2> HIDE DEF read, alone
    <2> QED
      BY <2>2, <2>4, <2>5, Zenon DEF Approximate
  <1> QED
    BY <1>1, SpecTold, PTL
=============================================================================
