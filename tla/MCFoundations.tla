--------------------------- MODULE MCFoundations ---------------------------
EXTENDS Foundations

V == {"vendor.tar"}
World(ph, plan, com, d, e, k) ==
  [phase |-> ph, plan |-> plan, committed |-> com, depth |-> d, edits |-> e, kind |-> k]

\* Archives of every shape in a quiet tree: a vendored one to two depths, one of
\* the package, and two that share the limits.  Findings to the limit and a source
\* that is missing.  Trees without archives, edited.
MCWorlds ==
  {World("post", V, {}, d, 0, <<"text", "absent", "absent", "absent", "archive">>) : d \in {1, 2}}
  \cup {World("pre", NoDeclaration, V, 1, 0, <<"text", "absent", "archive", "absent", "absent">>),
        World("post", V, V, 1, 0, <<"text", "absent", "archive", "archive", "absent">>),
        World("post", V, V, 1, 0, <<"bad control", "absent", "special", "absent", "absent">>)}
  \cup {World("post", p, c, d, 2, <<"text", o, "directory", v, w>>) :
          p \in {NoDeclaration, V}, c \in {NoDeclaration, V}, d \in 0 .. 1,
          o \in {"absent", "archive"}, w \in {"absent", "text", "foreign"},
          v \in {"absent", "escaping link", "directory", "empty directory"}}
  \cup {World("pre", NoDeclaration, c, 1, 2, <<a, "absent", s, v, "absent">>) :
          c \in {NoDeclaration, {}, V}, a \in {"text", "bad control", "absent"},
          s \in {"absent", "directory"}, v \in {"absent", "special", "directory", "text"}}
MCSizes == {-1, 0, 1}

Texts == {t \in UNION {[1 .. n -> {"c", "n", "l", "t"}] : n \in 1 .. 5} :
            /\ t[1] # "t" /\ t[Len(t)] # "l"
            /\ \A k \in 1 .. Len(t) - 1 : (t[k] = "l") = (t[k + 1] = "t")}
File(path, text, changed) == [path |-> path, text |-> text, changed |-> changed]
MCInventories ==
  {<<>>} \cup {<<File("a", t, c), File("b", u, d)>> :
     t \in Texts, u \in {<<"n">>, <<"c", "l", "t", "n">>}, c \in BOOLEAN, d \in BOOLEAN}
MCOptions == {[ceiling |-> 0, expansion |-> 1]} \cup [ceiling : {27, 34}, expansion : {2, 7}]

MCKinds == {"memory", "cpu", "output"}
MCValues == {-1, 0, 1, 4}
MCPhysical == [k \in {"memory", "cpu"} |-> 3]
MCFreezeMax == [k \in MCKinds |-> 3]
MCFreezeFloor == [k \in MCKinds |-> 2]

\* An editor beside one writer, or a power loss between two.
MCFileBounds == {[writes |-> 1, edits |-> 2, crashes |-> 0], [writes |-> 2, edits |-> 0, crashes |-> 1]}

Configured(m, p, o, r) == [mode |-> m, provider |-> p, model |-> o, reasoning |-> r]
MCConfigs ==
  {Configured("off", "codex", "x", "auto")}
  \cup {Configured("ai", p, o, "auto") : p \in {"codex", "ollama"}, o \in {"x", "y"}}
  \cup {Configured("ai", "anthropic", "x", "auto"), Configured("ai", "ollama", "x", "high")}
MCPrograms ==
  {[version |-> "below", features |-> {"stable"}],
   [version |-> "within", features |-> {"stable", "experimental", "deprecated"}],
   [version |-> "within", features |-> {"deprecated"}],
   [version |-> "above", features |-> {"stable", "removed"}]}
Model(i, t, c, r) == [id |-> i, thinking |-> t, context |-> c, remote |-> r]
MCModels == {Model("m", TRUE, TRUE, FALSE), Model("n", FALSE, TRUE, FALSE),
             Model("o", TRUE, FALSE, FALSE), Model("p", TRUE, TRUE, TRUE)}

MCTokens == {"--skipchecksums", "--skippgpcheck", "--verifysource", "--nobuild", "--noextract",
             "--noprepare", "--holdver", "--printsrcinfo", "--packagelist", "--config",
             "/etc/makepkg.conf", "/tmp/x", "-V", "-c"}
MCCommandLines ==
  UNION {[1 .. n -> MCTokens] : n \in 0 .. 3}
  \cup {<<"--noextract", "--noprepare", "--holdver", t>> : t \in MCTokens}
  \cup {<<"--nobuild", "--config", "/etc/makepkg.conf", "--config", t>> : t \in MCTokens}
MCReports == [phase: {"pre", "post"}, decision: {"allow", "block"}, networkEligible: BOOLEAN,
              vcs: BOOLEAN, signed: BOOLEAN]
=============================================================================
