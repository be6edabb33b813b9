---------------------------- MODULE MCConverter ----------------------------
(* Small instances of Converter: tokens X and Y with WETH between them. *)
EXTENDS Converter

CONSTANTS X, W, Y

NoPaths == {}
DirectPaths == {<<X, Y>>}
=============================================================================
