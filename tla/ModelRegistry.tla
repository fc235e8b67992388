---------------------------- MODULE ModelRegistry ----------------------------
(***************************************************************************)
(* How a model name becomes a profile: the registry of built-in profiles,  *)
(* the profiles a config file adds at start-up, and resolution by name,    *)
(* family and default (llm386-core/src/model.rs, llm386-config).           *)
(*                                                                         *)
(* Names and families are sequences of name parts, so that a prefix is a   *)
(* prefix; a name as callers write it is the sequence of its /-separated   *)
(* segments.                                                               *)
(***************************************************************************)
EXTENDS Integers, SequencesExt

CONSTANTS
  NoFamily,         \* family of a profile without one
  BuiltIn,          \* the profiles of models.toml, in order
  BuiltInDefault,   \* its default = "..."
  UserProfile,      \* profiles config files hold: [name, family, limits]
  RequestedModel,   \* names callers ask for
  MaxUserProfiles   \* bound: profiles in one config file

ASSUME ProfilesAssumption ==
  /\ BuiltIn \in Seq(Range(BuiltIn))
  /\ \A p \in Range(BuiltIn) \union UserProfile : p.family # NoFamily => Len(p.family) \in Nat

VARIABLE registry  \* [profiles, by_name, default_name] of the ModelRegistry

(* The older entry of a name stays in the list. *)
Register(reg, p) ==
  [reg EXCEPT !.profiles = Append(@, p),
              !.by_name = [n \in DOMAIN reg.by_name \union {p.name} |->
                             IF n = p.name THEN Len(reg.profiles) + 1 ELSE reg.by_name[n]]]

EmptyRegistry == [profiles |-> <<>>, by_name |-> <<>>, default_name |-> <<>>]

default_registry ==
  LET reg[n \in 0..Len(BuiltIn)] == IF n = 0 THEN EmptyRegistry ELSE Register(reg[n - 1], BuiltIn[n])
  IN [reg[Len(BuiltIn)] EXCEPT !.default_name = BuiltInDefault]

RegistryInit == registry = default_registry

-----------------------------------------------------------------------------
strip_provider_prefix(input) == Last(input)

Claims(p, name) == p.family \notin {NoFamily, <<>>} /\ IsPrefix(p.family, name)

(* ResolvesAsDocumented: < for >= lets the first of a family win. *)
FamilyMatch_First(reg, name) ==
  LET len(i) == Len(reg.profiles[i].family)
      best[n \in 0..Len(reg.profiles)] ==
        IF n = 0 THEN 0
        ELSE IF Claims(reg.profiles[n], name) /\ (best[n - 1] = 0 \/ len(n) > len(best[n - 1]))
               THEN n ELSE best[n - 1]
  IN best[Len(reg.profiles)]

(* One pass over the list; 0 when no family is a prefix of the name. *)
FamilyMatch(reg, name) ==
  LET len(i) == Len(reg.profiles[i].family)
      best[n \in 0..Len(reg.profiles)] ==
        IF n = 0 THEN 0
        ELSE IF Claims(reg.profiles[n], name) /\ (best[n - 1] = 0 \/ len(n) >= len(best[n - 1]))
               THEN n ELSE best[n - 1]
  IN best[Len(reg.profiles)]

DefaultProfile(reg) == IF reg.default_name \in DOMAIN reg.by_name THEN reg.by_name[reg.default_name] ELSE 1

(* The index of the profile a name resolves to. *)
Resolve(reg, input) ==
  LET name == strip_provider_prefix(input)
      family == FamilyMatch(reg, name)
  IN IF name \in DOMAIN reg.by_name THEN reg.by_name[name]
     ELSE IF family # 0 THEN family ELSE DefaultProfile(reg)

Resolved(reg, input) == reg.profiles[Resolve(reg, input)]

-----------------------------------------------------------------------------
(* apply folds the [[profile]] entries of the file in, one by one.         *)
RegisterProfile(p) ==
  /\ Len(registry.profiles) < Len(BuiltIn) + MaxUserProfiles
  /\ registry' = Register(registry, p)

RegistryNext == \E p \in UserProfile : RegisterProfile(p)

RegistrySpec == RegistryInit /\ [][RegistryNext]_registry

-----------------------------------------------------------------------------
Latest(I) == CHOOSE i \in I : \A j \in I : j <= i
Named(n) == {i \in DOMAIN registry.profiles : registry.profiles[i].name = n}
Claiming(n) == {i \in DOMAIN registry.profiles : Claims(registry.profiles[i], n)}

(* What model.rs promises of resolve: the latest profile of exactly that   *)
(* name, else the latest of the longest family that is a prefix of it,     *)
(* else the default, else the first; whatever the order of registration.   *)
ResolvesAsDocumented ==
  \A input \in RequestedModel :
    LET name == Last(input)
        longest == {i \in Claiming(name) : \A j \in Claiming(name) :
                      Len(registry.profiles[j].family) <= Len(registry.profiles[i].family)}
    IN Resolve(registry, input) =
         IF Named(name) # {} THEN Latest(Named(name))
         ELSE IF longest # {} THEN Latest(longest)
         ELSE IF Named(registry.default_name) # {} THEN Latest(Named(registry.default_name)) ELSE 1

=============================================================================
