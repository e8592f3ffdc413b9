----------------------------- MODULE MCSpecOverlay -----------------------------
(* A part of MilvusSpec small enough to list: a struct, a pointer to a      *)
(* struct, scalars, a label map and a free-form config of two levels.       *)
EXTENDS SpecOverlay, TLC, FiniteSets

CONSTANT MaxSettings   \* how many --set options there are at most

MCKey == {"components", "image", "podLabels", "proxy", "replicas", "config", "log", "level",
          "nosuch", "file", "size"}

Components == <<"components">>
Image      == <<"components", "image">>
Labels     == <<"components", "podLabels">>
Proxy      == <<"components", "proxy">>
Replicas   == <<"components", "proxy", "replicas">>
Config     == <<"config">>
Log        == <<"config", "log">>
Level      == <<"config", "log", "level">>

MCKind ==
  Components :> "struct" @@ Image :> "string" @@ Labels :> "labels" @@
  Proxy :> "pointer" @@ Replicas :> "int" @@ Config :> "values"

(* Trees that are joined to a spec: the proxy and the config there may be. *)
Proxies == {Proxy :> Nil, Proxy :> Table @@ Replicas :> Nil, Proxy :> Table @@ Replicas :> Number}
Configs ==
  { Config :> NilMap, Config :> Table, Config :> Table @@ Log :> Text,
    Config :> Table @@ Log :> Table, Config :> Table @@ Log :> Table @@ Level :> Text }

MCSpecs ==
  { Components :> Table @@ Image :> image @@ Labels :> Nil @@ proxy @@ config :
      image \in {Nil, Text}, proxy \in Proxies, config \in Configs }

(* The options, as path and value: known and unknown fields at each level, *)
(* scalars where tables are, integers where strings are, and so on.        *)
Options ==
  { <<<<"nosuch">>, Text>>, <<Components, Text>>, <<<<"components", "nosuch">>, Text>>,
    <<Image, Text>>, <<Image, Number>>, <<Labels, Text>>, <<Proxy, Text>>,
    <<Replicas, Number>>, <<Replicas, Text>>, <<<<"components", "proxy", "nosuch">>, Text>>,
    <<Config, Text>>, <<Log, Text>>, <<Log, Number>>, <<Level, Number>>,
    <<<<"config", "log", "file">>, Text>>, <<<<"config", "size">>, Number>> }

(* In a parsed table no option is above, or the same as, another. *)
Compatible(chosen) ==
  \A a, b \in chosen : a # b => ~IsPrefix(a[1], b[1])

TableOf(chosen) ==
  [p \in UNION {Parents(o[1]) \cup {o[1]} : o \in chosen} |->
     IF \E o \in chosen : o[1] = p THEN (CHOOSE o \in chosen : o[1] = p)[2] ELSE Table]

Chosen == {c \in {{a, b, c} : a, b, c \in Options} : Compatible(c) /\ Cardinality(c) <= MaxSettings}

MCTables == {TableOf(c) : c \in {{}} \cup Chosen}

=============================================================================
