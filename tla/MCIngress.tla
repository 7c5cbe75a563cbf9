------------------------------ MODULE MCIngress ------------------------------
(* Two connections that overlap; buffers of two parts and one.               *)
EXTENDS Ingress
=============================================================================
