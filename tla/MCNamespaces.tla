---------------------------- MODULE MCNamespaces ----------------------------
(* The root, a namespace a and one b inside it; two names in the outer ones. *)
EXTENDS Namespaces

CONSTANTS a, b

MCAbove == [s \in {Root, a, b} |-> CASE s = Root -> {Root} [] s = a -> {Root, a} [] s = b -> {Root, a, b}]
MCNames == ({Root, a} \X {1, 2}) \cup {<<b, 1>>}
MCExportable == [s \in {Root, a, b} |-> CASE s = Root -> {} [] s = a -> {Star} [] s = b -> {1}]
=============================================================================
