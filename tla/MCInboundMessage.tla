--------------------------- MODULE MCInboundMessage ---------------------------
(* Small instances of InboundMessage for TLC.                              *)
EXTENDS InboundMessage, TLC

CONSTANTS m1, m2, s1

\* The defaults; an owner who wants to hear of spam only, and answers nothing.
MCDefaults == [enabled |-> TRUE, alerts |-> Sensitive \cup {"low_confidence"},
               policy |-> "off_topic" :> "auto_reply_template" @@ "spam" :> "react_emoji"]
MCSpamOnly == [enabled |-> TRUE, alerts |-> {"spam"}, policy |-> << >>]
MCDisabled == [MCDefaults EXCEPT !.enabled = FALSE]
MCSymmetry == Permutations(Message)
MCSettings == {MCDefaults, MCSpamOnly, MCDisabled}

=============================================================================
