------------------------------ MODULE Exchange ------------------------------
(***************************************************************************)
(* What the server promises for one request per connection, whatever the   *)
(* threads do: a request is held while it arrives, it is handed to a       *)
(* service at most once, its answer is decided once and then sent chunk    *)
(* by chunk, and its connection is never closed under a running service.   *)
(* Reactor implements this specification.                                  *)
(***************************************************************************)
EXTENDS Naturals

CONSTANTS Conns, RespLen

VARIABLES stage,  \* stage[c]: how far the exchange on connection c has come
          out     \* out[c]: chunks of the answer sent on c

exchangeVars == <<stage, out>>

Stages == {"absent", "held", "serving", "answering", "closed", "lost"}

ExchangeInit == /\ stage = [c \in Conns |-> "absent"]
                /\ out = [c \in Conns |-> 0]

Step(c, from, to) == /\ stage[c] \in from
                     /\ stage' = [stage EXCEPT ![c] = to]
                     /\ UNCHANGED out

Admit(c)    == Step(c, {"absent"}, "held")
Dispatch(c) == Step(c, {"held"}, "serving")
Decide(c)   == Step(c, {"held", "serving"}, "answering")
Shut(c)     == Step(c, {"held", "answering"}, "closed")

Emit(c) == /\ stage[c] = "answering" /\ out[c] < RespLen
           /\ out' = [out EXCEPT ![c] = @ + 1]
           /\ UNCHANGED stage

(* A socket accepted and then forgotten: no request is ever read from it.  *)
Lose(c) == Step(c, {"absent"}, "lost")

ExchangeNext == \E c \in Conns : \/ Admit(c) \/ Dispatch(c) \/ Decide(c)
                                 \/ Shut(c) \/ Emit(c) \/ Lose(c)

ExchangeSpec == ExchangeInit /\ [][ExchangeNext]_exchangeVars
=============================================================================
