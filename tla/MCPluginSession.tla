-------------------------- MODULE MCPluginSession --------------------------
(* Two executions, taken in order: they are interchangeable, and liveness  *)
(* properties admit no symmetry set.  Two questions in all: both of one    *)
(* daemon, or one each of a daemon and the one after it.  A preview is     *)
(* followed by previews: repositioning asks again.                         *)
EXTENDS PluginSession

CONSTANT First

MCTokens == {<<0, 0>>, <<0, 1>>, <<1, 0>>}

InOrder == stage[First] = "none" => \A e \in Execs : stage[e] = "none"
PreviewsLast == kind[<<0, 0>>] = "preview" => kind[<<0, 1>>] # "binary"
FewQuestions == Cardinality({t \in Tokens : kind[t] # "unasked"}) <= 2
=============================================================================
