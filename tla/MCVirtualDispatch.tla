------------------------ MODULE MCVirtualDispatch --------------------------
(* A function of its own for every method a struct may implement.           *)
EXTENDS VirtualDispatch

MCFn == Method \X Struct
MCSymbolOf == [implementation \in Method \X Struct |-> implementation]
=============================================================================
