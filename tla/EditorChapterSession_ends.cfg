SPECIFICATION FairSpec
CONSTANTS
  chapter = chapter
  inserted = inserted
  conflicted = conflicted
  f1 = f1
  f2 = f2
  s1 = s1
  s2 = s2
  other = other
  Chapters = {chapter}
  NoChapter = NoChapter
  Changes = {inserted, conflicted}
  ChapterOf <- MCChapterOf
  KindOf <- MCKindOf
  Flows = {f1}
  Syncs = {s1}
  NoSync = NoSync
  MaxSaves = 1
PROPERTIES EveryTaskEnds
