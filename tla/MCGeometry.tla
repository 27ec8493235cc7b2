------------------------------ MODULE MCGeometry ------------------------------
(* Lengths below, at and above a sector, a page and a block.               *)
EXTENDS Geometry

MCLengths ==
  {<<0, 0, 1>>, <<0, 0, 512>>, <<0, 0, 1023>>, <<0, 1, -1>>, <<0, 1, 0>>, <<0, 2, 3>>,
   <<1, 0, -2>>, <<1, 0, 0>>, <<1, 0, 1>>}
===============================================================================
