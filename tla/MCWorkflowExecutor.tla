-------------------------- MODULE MCWorkflowExecutor --------------------------
(* Workflow definitions for TLC. *)
EXTENDS WorkflowExecutor, TLC

Edge(s, h, t) == [source |-> s, handle |-> h, target |-> t]

\* A branch and a join: in -> if -> (true: ask, false: act) -> out.
Diamond ==
  [nodes |-> {"in", "if", "ask", "act", "out"},
   type  |-> [in |-> "input", if |-> "condition", ask |-> "llm", act |-> "tool",
              out |-> "tool"],
   edges |-> {Edge("in", "none", "if"), Edge("if", "true", "ask"),
              Edge("if", "false", "act"), Edge("ask", "none", "out"),
              Edge("act", "none", "out")}]

\* A condition behind a branch of another, and a gate behind both.
Nested ==
  [nodes |-> {"if", "if2", "ask", "sign", "out"},
   type  |-> [if |-> "condition", if2 |-> "condition", ask |-> "llm",
              sign |-> "gate", out |-> "tool"],
   edges |-> {Edge("if", "true", "if2"), Edge("if2", "true", "ask"),
              Edge("if2", "false", "sign"), Edge("ask", "none", "out"),
              Edge("sign", "none", "out")}]

\* Two gates and a model in the first wave, one gate behind them.
Gated ==
  [nodes |-> {"sign1", "sign2", "ask", "sign3"},
   type  |-> [sign1 |-> "gate", sign2 |-> "gate", ask |-> "llm", sign3 |-> "gate"],
   edges |-> {Edge("sign1", "none", "sign3"), Edge("sign2", "none", "sign3"),
              Edge("ask", "none", "sign3")}]

\* Every graph on a condition, a tool and a gate, at most one edge each way.
Small ==
  LET N == {"if", "act", "sign"}
      All == {e \in [source : N, handle : Handles, target : N] :
                /\ e.source # e.target
                /\ e.source = "if" \/ e.handle = "none"}
  IN {[nodes |-> N, type |-> [if |-> "condition", act |-> "tool", sign |-> "gate"],
       edges |-> E] : E \in {E \in SUBSET All :
         \A e, f \in E : e.source = f.source /\ e.target = f.target => e = f}}

Samples == {Diamond, Nested, Gated}
SamplesAndSmall == Samples \cup Small
===============================================================================
