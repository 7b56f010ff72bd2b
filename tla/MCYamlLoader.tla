---------------------------- MODULE MCYamlLoader ----------------------------
EXTENDS YamlLoader

MCTokens ==
  {Token(t, None) : t \in {"DOCUMENT-START", "DOCUMENT-END", "BLOCK-SEQUENCE-START", "BLOCK-MAPPING-START",
     "BLOCK-END", "FLOW-SEQUENCE-START", "FLOW-SEQUENCE-END", "FLOW-MAPPING-START", "FLOW-MAPPING-END",
     "BLOCK-ENTRY", "FLOW-ENTRY", "KEY", "VALUE", "SCALAR"}}
  \cup {Token("VERSION-DIRECTIVE", v) : v \in {"good", "bad"}}
  \cup {Token("TAG-DIRECTIVE", h) : h \in {"!e!"}}
  \cup {Token("TAG", h) : h \in {"nonspecific", "!e!"}}
  \cup {Token("ANCHOR", a) : a \in {"a"}} \cup {Token("ALIAS", a) : a \in {"a"}}
=============================================================================
