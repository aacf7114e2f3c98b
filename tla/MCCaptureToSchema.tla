-------------------------- MODULE MCCaptureToSchema --------------------------
(***************************************************************************)
(* A site of five pages and two assets.  One page is on a foreign host,    *)
(* one redirects to another and is in the sitemap; a page links back, a    *)
(* stylesheet imports a font.  The home page has more evidence than a      *)
(* batch holds.                                                            *)
(***************************************************************************)
EXTENDS CaptureToSchema

MCUrls == {"home", "item", "moved", "deep", "foreign", "style", "font"}

MCAdmissible == MCUrls \ {"foreign"}

MCPageLinks ==
  [u \in MCUrls |->
     CASE u = "home" -> {"item", "moved", "foreign"}
       [] u = "item" -> {"home", "deep"}
       [] OTHER -> {}]

MCAssetLinks ==
  [u \in MCUrls |->
     CASE u = "home" -> {"style"} [] u = "style" -> {"font"} [] OTHER -> {}]

MCLanding == [u \in MCUrls |-> IF u = "moved" THEN "item" ELSE u]

MCArchive == [k \in Kinds |-> IF k = "page" THEN {"home", "item"} ELSE {"style"}]

Limits(pages, assets) == [k \in Kinds |-> IF k = "page" THEN pages ELSE assets]

\* Resumed and checked for static pages, one level deep.
Shallow ==
  [ zip |-> FALSE, resume |-> TRUE, static |-> TRUE, sitemap |-> FALSE,
    depth |-> 1, full |-> FALSE, limit |-> Limits(0, 0) ]

\* The whole site with its sitemaps, within limits.
Limited ==
  [ zip |-> FALSE, resume |-> TRUE, static |-> FALSE, sitemap |-> TRUE,
    depth |-> 0, full |-> TRUE, limit |-> Limits(2, 1) ]

\* Every call starts from scratch.
Restarted ==
  [ zip |-> FALSE, resume |-> FALSE, static |-> FALSE, sitemap |-> FALSE,
    depth |-> 2, full |-> FALSE, limit |-> Limits(0, 1) ]

Zipped ==
  [ zip |-> TRUE, resume |-> TRUE, static |-> TRUE, sitemap |-> FALSE,
    depth |-> 0, full |-> FALSE, limit |-> Limits(0, 0) ]

\* A small crawl that follows its sitemap; its schema is inferred.
Seeded ==
  [ zip |-> FALSE, resume |-> TRUE, static |-> FALSE, sitemap |-> TRUE,
    depth |-> 0, full |-> FALSE, limit |-> Limits(2, 1) ]

MCConfigs == {Shallow, Limited, Restarted, Zipped, Seeded}
MCInferFor == {Seeded}
MCStaticConfigs == {Shallow}

MCContentOf == [u \in MCUrls |-> IF u = "home" THEN "long" ELSE "short"]
MCSize == [c \in {"long", "short"} |-> IF c = "long" THEN 13 ELSE 3]
MCExtra == <<>>

=============================================================================
