----------------------------- MODULE MCConsole ------------------------------
(***************************************************************************)
(* Console on a screen of two rows of three cells, with texts that wrap,   *)
(* end lines and scroll.                                                   *)
(***************************************************************************)
EXTENDS Console

MCBootText == <<"w", "w", "w", "\n", "$">>
MCPrompt   == <<"$">>
MCAnswers  == {<<"w", "\n">>}
MCNotice   == <<"u", "u", "u">>
=============================================================================
