---------------------------- MODULE MCAssetLoader ----------------------------
(* A level group of two assets, one of which shares its name with the only *)
(* asset of a menu group, a group the manifest does not know, and the      *)
(* engine's own assets, one named and one the default of its class.        *)
EXTENDS AssetLoader, TLC

CONSTANTS level, menu, unknown, engine,
          hero, tune, title, logo, missing,
          nHero, nTune, nLogo, texture, sound

MCGroups   == {level, menu, unknown, engine}
MCAssets   == {hero, tune, title, logo, missing}
MCNames    == {nHero, nTune, nLogo}
MCClasses  == {texture, sound}
MCManifest == level :> <<hero, tune>> @@ menu :> <<title>> @@
              unknown :> <<>> @@ engine :> <<logo, missing>>
MCName     == hero :> nHero @@ tune :> nTune @@ title :> nHero @@
              logo :> nLogo @@ missing :> NoName
MCClass    == [a \in MCAssets |-> IF a = tune THEN sound ELSE texture]
===============================================================================
