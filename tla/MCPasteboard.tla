---------------------------- MODULE MCPasteboard ----------------------------
(* Pasteboard with three texts, the empty one, one that is base64 and one  *)
(* that is not, and contents of two records from other apps.               *)
EXTENDS Pasteboard

SomeContents == {<<"a", "">>}
=============================================================================
