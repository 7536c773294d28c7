SPECIFICATION Spec
CONSTANTS
  chapter = chapter
  inserted = inserted
  conflicted = conflicted
  f1 = f1
  f2 = f2
  s1 = s1
  s2 = s2
  other = other
  Chapters = {chapter, other}
  NoChapter = NoChapter
  Changes = {inserted}
  ChapterOf <- MCChapterOf
  KindOf <- MCKindOf
  Flows = {f1}
  Syncs = {s1, s2}
  NoSync = NoSync
  MaxSaves = 2
SYMMETRY SyncSymmetry
INVARIANTS TypeOK NothingLingers
PROPERTIES DraftsSurviveReloads RefreshBringsPulled RequestOutlivesFailure
