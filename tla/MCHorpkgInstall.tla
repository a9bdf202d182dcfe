-------------------------- MODULE MCHorpkgInstall --------------------------
(* Two versions of an app with HNPs, the later one with one more           *)
(* permission, an app that may not be signed and the runtime.              *)
EXTENDS HorpkgInstall, TLC

Hap(bundle, module, fa, abis) ==
  [bundle |-> bundle, module |-> module, config |-> fa, abis |-> abis]

SomeHaps == {Hap("app", {"open"}, {}, {"arm"}), Hap("app", {"open", "acl"}, {}, {"arm", "x86"}),
             Hap("app", {}, {"other"}, {}), Hap("runtime", {}, {}, {}),
             Hap("none", {}, {}, {})}

SomePids == Permutations(Pids)
============================================================================
