----------------------------- MODULE MCEngines ------------------------------
(* Instances of Engines for TLC: a hosting account with two WordPress      *)
(* installations, the second one below the first, and a third behind a     *)
(* symlink.  The first has two core files, a stray script with an odd name *)
(* and two plugins, of which the limit leaves one out.                     *)
EXTENDS Engines, TLC

CONSTANTS home, blog, linked, index, login, stray, seo, seoFile, seoAsset, shop, shopFile, blogIndex

Sites3 == <<home, blog, linked>>
HomeFiles == {index, login, stray, seoFile, seoAsset, shopFile}
AllFiles == HomeFiles \cup {blogIndex}
MCSiteOf == [f \in AllFiles |-> IF f = blogIndex THEN blog ELSE home]
MCPartOf == [f \in AllFiles |-> CASE f \in {seoFile, seoAsset} -> seo [] f = shopFile -> shop [] OTHER -> "core"]
MCExecutable == AllFiles \ {seoAsset}
MCPlugins == [s \in {home, blog, linked} |-> IF s = home THEN <<seo, shop>> ELSE <<>>]
=============================================================================
