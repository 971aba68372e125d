----------------------- MODULE MCMscDataGroupGenerator -----------------------
(***************************************************************************)
(* MscDataGroupGenerator on datagrams of different sizes and of equal      *)
(* sizes with different contents, the shortest and the longest the         *)
(* injector makes among them.                                              *)
(***************************************************************************)
EXTENDS MscDataGroupGenerator

CONSTANT Contents

MCDatagrams == [content : Contents, size : {28, 128, 1052}]
=============================================================================
