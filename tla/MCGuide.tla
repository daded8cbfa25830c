-------------------------------- MODULE MCGuide --------------------------------
EXTENDS Guide

\* A source with one channel whose programmes come out of order, and an account that
\* knows the same channel and another.
MCFeeds == [xml |-> <<Fragment("channel", "hbo", 0, 0), Fragment("programme", "hbo", 4, 6),
                      Fragment("programme", "hbo", 0, 2)>>,
            sd |-> <<Fragment("channel", "hbo", 0, 0), Fragment("channel", "cnn", 0, 0),
                     Fragment("programme", "hbo", 2, 4), Fragment("programme", "cnn", 2, 6)>>]
MCExportId == [HBO |-> "HBO", News |-> "News"]
MCMappings0 == {[HBO |-> Unmapped, News |-> "hbo"]}
MCEPGLists == {<<>>, <<"xml">>}
MCSDLists == {{}, {"sd"}}
================================================================================
