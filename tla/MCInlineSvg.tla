---------------------------- MODULE MCInlineSvg ----------------------------
EXTENDS InlineSvg, SequencesExt

(* Every text of up to three tokens, none of them torn or self-closing.    *)
MCHtmls == SeqOf({"open", "close", "text", "accent"}, 3)
=============================================================================
