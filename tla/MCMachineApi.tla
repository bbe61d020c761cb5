---------------------------- MODULE MCMachineApi ----------------------------
(* Two requests in two processes, or two uploads in one.  Every behaviour is *)
(* about the calls of one scenario, sent as often as clients like.           *)
EXTENDS MachineApi, TLC
CONSTANTS p, q, h, i, j, k1, k2, k3,
          edit, deactivate, submit, resubmit, ask, again, askOther, askThird,
          cancel, create

Apart(calls)    == h :> calls @@ i :> calls @@ j :> {}
Together(calls) == h :> calls @@ i :> {} @@ j :> calls
MCScenarios ==
    {Together({submit})} \cup
    {Apart(calls) : calls \in {{edit, deactivate}, {edit, submit}, {submit, resubmit},
                              {ask, again}, {ask, askOther, askThird}, {ask, cancel},
                              {ask, deactivate}, {create, edit}}}

MCHostOf == h :> p @@ i :> q @@ j :> p
MCKeyOf == edit :> k1 @@ deactivate :> k2 @@ submit :> k3 @@ resubmit :> k3
           @@ ask :> k1 @@ again :> k2 @@ askOther :> k2 @@ askThird :> k3
           @@ cancel :> k3 @@ create :> k1
MCOpOf == edit :> "edit" @@ deactivate :> "deactivate" @@ submit :> "submit"
          @@ resubmit :> "submit" @@ ask :> "ask" @@ again :> "ask"
          @@ askOther :> "ask" @@ askThird :> "ask"
          @@ cancel :> "cancel" @@ create :> "create_vendor"
MCAboutOf == [c \in Calls |-> ask]
MCRecipientOf == [c \in Calls |-> CASE c = askOther -> "other" [] c = askThird -> "third"
                                   [] OTHER -> "someone"]
=============================================================================
