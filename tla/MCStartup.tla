----------------------------- MODULE MCStartup ------------------------------
(* The schema and the statements of the program, for two processes.        *)
EXTENDS Startup

MCSchema ==
    << "CD", "NAMEHASH", "TRACKS", "DISCID", "FUZZYID", "GENRE", "ERRORS",
       "track_cd_idx", "discid_id_idx", "fuzzyid_id_idx" >>

\* The cache of genres is constructed with three statements, of which one is
\* gone when it is ready; statements on tables that were needed before have no
\* effect of their own and are left out.
MCUpdaterNeeds ==
    << {"GENRE"}, {"CD"}, {"TRACKS"}, {"DISCID"}, {"FUZZYID"}, {"NAMEHASH"},
       {"ERRORS"} >>
MCServerNeeds ==
    << {"DISCID", "CD"}, {"TRACKS"}, {"FUZZYID"}, {"GENRE"} >>
=============================================================================
