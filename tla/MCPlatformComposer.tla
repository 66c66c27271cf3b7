------------------------ MODULE MCPlatformComposer ------------------------
(* PlatformComposer for TLC: what the console asks for. *)
EXTENDS PlatformComposer, TLC

CONSTANTS w1, w2

Ask(hazards, county, modules, layers, categories, slug, publish) ==
  [ hazards |-> hazards, county |-> county, modules |-> modules, layers |-> layers,
    categories |-> categories, slug |-> slug, publish |-> publish ]

MCAsks ==
  { \* all left to the composer
    Ask(<< "typhoon" >>, "hualien", Null, Null, Null, Null, TRUE),
    \* layers of official data without their connectors, out of order and twice
    Ask(<< "flood" >>, "nantou", { "reporter_role" },
        << "power_outage", "rainfall", "heatmap", "rainfall" >>,
        << "fire", "meteor" >>, "demo", TRUE),
    \* nothing at all
    Ask(<< "tsunami", "earthquake" >>, Null, {}, << >>, << "other" >>, Null, FALSE) }

Symmetry == Permutations({ w1, w2 })
=============================================================================
